---- MODULE Spec2Model ----
(***************************************************************************)
(* A model of the LLM tournament widget front end (React + TypeScript):    *)
(* the evaluation utilities (shared/utils/evaluation.ts), the evaluation   *)
(* form and table (components/EvaluationTable.tsx) and, since the back end *)
(* (api/) is not part of the sources at hand, the evaluation orchestrator  *)
(* as spec.md describes it.                                                *)
(*                                                                         *)
(* Representation.                                                         *)
(*  - A JavaScript string is a sequence of atoms.  The atom " " is a       *)
(*    white-space character; every other atom is a piece of text that      *)
(*    begins and ends with a non-white-space character ("accuracy").  The  *)
(*    empty string is << >>.  trim() strips white-space atoms at both ends.*)
(*  - A score or a weight is a fixed-point number counted in units of      *)
(*    0.0005: 1.0 is 2000 units, the tolerance 0.001 is 2 units.  The      *)
(*    arithmetic of the model is exact on that grid.                       *)
(*  - A JavaScript value that may be null or undefined is a record with a  *)
(*    field kind ("null", "undefined", or the kind of the value).          *)
(***************************************************************************)
EXTENDS Integers, Sequences, FiniteSets, TLC

VARIABLES
    \* ---- shared/utils/evaluation.ts: the last call of a pure function
    call,
    \* ---- EvaluationTable: the component's state (useState hooks)
    testInput, expectedOutput, generationCount, evaluationCount,
    prompts, criteria,
    generationProvider, generationModel, evaluationProvider, evaluationModel,
    useAdvancedModelSettings,
    \* the initialData prop and what the handler that ran last did
    initialData, lastOp, onEvaluateCalls,
    \* ---- the evaluation orchestrator (spec.md 4.2, 5): the request being
    \* evaluated, the provider calls in flight, the result slots reserved
    \* before the fan-out, the prompt results and the response
    orchRequest, inFlight, genSlots, promptResults, response,
    \* the order in which the generations of each prompt settled and the
    \* order in which the prompts were aggregated
    genArrivals, finished,
    \* ---- what the orchestrator runs with: its documented policy for a
    \* prompt none of whose generations returned (spec.md 9), the provider
    \* calls the stubs fail, and the invocations returned so far
    zeroDenominatorPolicy, stubFails, runs,
    \* ---- App: the component's state (useState hooks; appResults is its
    \* `results`), the evaluate requests awaiting their response, how far
    \* the history panel's selection handler has run, and the handler
    \* that ran last
    appResults, loading, error, isHistoryOpen, initialFormData,
    evaluateRequests, panelPc, appOp,
    \* a history variable, no state of App: the evaluation on display was
    \* selected from the history while the request now awaited was already sent
    pendingSinceBefore,
    \* ---- HistoryPanel: its isOpen prop, its state (useState hooks;
    \* panelLoading and panelError are its `loading` and `error`), the
    \* getEvaluationHistory calls made so far (their limit arguments) and
    \* those still in flight (by their position among the calls made), the
    \* call whose result `evaluations` holds, the getEvaluationById calls
    \* in flight, the callbacks called so far, and the handler that ran last
    isOpen, evaluations, panelLoading, panelError, historyCalls,
    historyFetches, evaluationsFrom, itemFetches, panelCalls, panelOp

utilVars == <<call>>
formVars == <<testInput, expectedOutput, generationCount, evaluationCount,
              prompts, criteria, generationProvider, generationModel,
              evaluationProvider, evaluationModel, useAdvancedModelSettings,
              initialData, lastOp, onEvaluateCalls>>
orchVars == <<orchRequest, inFlight, genSlots, promptResults, response,
              genArrivals, finished>>
\* what the handlers of the form leave alone
runVars == <<zeroDenominatorPolicy, stubFails, runs>>
appVars == <<appResults, loading, error, isHistoryOpen, initialFormData,
             evaluateRequests, panelPc, appOp, pendingSinceBefore>>
historyVars == <<isOpen, evaluations, panelLoading, panelError, historyCalls,
                 historyFetches, evaluationsFrom, itemFetches, panelCalls,
                 panelOp>>
backVars == <<utilVars, orchVars, runVars, appVars, historyVars>>
vars == <<utilVars, formVars, orchVars, runVars, appVars, historyVars>>

-----------------------------------------------------------------------------
(* Numbers on the fixed-point grid.                                        *)

\* 1.0 in units of 0.0005 (evaluation.ts:8, `totalWeight - 1.0`)
One == 2000
\* 0.001 in units of 0.0005 (evaluation.ts:8 and :19, `< 0.001`)
Tolerance == 2

\* Math.abs
MathAbs(x) == IF x < 0 THEN -x ELSE x

-----------------------------------------------------------------------------
(* Strings.                                                                *)

EmptyString == << >>
Space == " "

RECURSIVE TrimStart(_)
TrimStart(s) ==
    IF s # << >> /\ Head(s) = Space THEN TrimStart(Tail(s)) ELSE s

RECURSIVE TrimEnd(_)
TrimEnd(s) ==
    IF s # << >> /\ s[Len(s)] = Space
    THEN TrimEnd(SubSeq(s, 1, Len(s) - 1))
    ELSE s

\* String.prototype.trim
Trim(s) == TrimEnd(TrimStart(s))

\* array.filter(...): the elements of s at the indices in keep (the indices
\* whose element passes the test), in the order of the array
RECURSIVE FilterAt(_, _, _)
FilterAt(s, keep, i) ==
    IF i > Len(s) THEN << >>
    ELSE IF i \in keep THEN <<s[i]>> \o FilterAt(s, keep, i + 1)
         ELSE FilterAt(s, keep, i + 1)

Filter(s, keep) == FilterAt(s, keep, 1)

\* a JavaScript value that is absent
Undefined == [kind |-> "undefined"]
Null == [kind |-> "null"]

\* !x for a value that is null, undefined or an object/array
IsNullish(x) == x.kind \in {"null", "undefined"}

\* obj[key] of a Record<string, T>: undefined when the key is missing
Lookup(obj, key) ==
    IF key \in DOMAIN obj THEN [kind |-> "value", v |-> obj[key]] ELSE Undefined

\* x || d for a number x: undefined and 0 are falsy
NumberOr(x, d) == IF x.kind = "undefined" \/ x.v = 0 THEN d ELSE x.v

\* x || d for a string x: undefined and '' are falsy
StringOr(x, d) == IF x.kind = "undefined" \/ x.v = EmptyString THEN d ELSE x.v

\* the least element of a non-empty set of indices
MinIndex(S) == CHOOSE i \in S : \A j \in S : i <= j

\* array.find(test): the first element at an index in `matching`
Find(s, matching) ==
    IF matching = {} THEN Undefined
    ELSE [kind |-> "value", v |-> s[MinIndex(matching)]]

-----------------------------------------------------------------------------
(* shared/utils/evaluation.ts                                              *)

\* criteria.reduce((sum, c) => sum + c.weight, 0)
RECURSIVE ReduceWeights(_, _)
ReduceWeights(cs, sum) ==
    IF cs = << >> THEN sum ELSE ReduceWeights(Tail(cs), sum + Head(cs).weight)

validateCriteriaWeights_Inclusive(cs) ==
    MathAbs(ReduceWeights(cs, 0) - One) <= Tolerance

validateCriteriaWeights(cs) ==
    LET totalWeight == ReduceWeights(cs, 0)
    IN  MathAbs(totalWeight - One) < Tolerance

validateFormContent_SomePrompt(ps, cs, input) ==
    /\ Trim(input) # EmptyString
    /\ \E i \in 1..Len(ps) : Trim(ps[i]) # EmptyString
    /\ \A i \in 1..Len(cs) :
           /\ Trim(cs[i].name) # EmptyString
           /\ Trim(cs[i].description) # EmptyString

\* testInput.trim() !== '' && prompts.every(...) && criteria.every(...)
validateFormContent(ps, cs, input) ==
    /\ Trim(input) # EmptyString
    /\ \A i \in 1..Len(ps) : Trim(ps[i]) # EmptyString
    /\ \A i \in 1..Len(cs) :
           /\ Trim(cs[i].name) # EmptyString
           /\ Trim(cs[i].description) # EmptyString

\* isFormValid of evaluation.ts (the form component has its own, below)
utilsIsFormValid(ps, cs, input) ==
    /\ validateFormContent(ps, cs, input)
    /\ validateCriteriaWeights(cs)

\* Math.max(...xs) of a non-empty array, folded from -Infinity
RECURSIVE MathMaxFrom(_, _)
MathMaxFrom(xs, acc) ==
    IF xs = << >> THEN acc
    ELSE MathMaxFrom(Tail(xs),
                     IF acc.kind = "-Infinity" \/ Head(xs) > acc.v
                     THEN [kind |-> "value", v |-> Head(xs)] ELSE acc)

MathMax(xs) == MathMaxFrom(xs, [kind |-> "-Infinity"]).v

\* the filter/map of getBestPromptIds over an array of PromptResult
BestIdsOf(items) ==
    LET maxScore == MathMax([i \in 1..Len(items) |-> items[i].total_score])
        kept == Filter(items,
                       {i \in 1..Len(items) :
                            MathAbs(items[i].total_score - maxScore) < Tolerance})
    IN  [i \in 1..Len(kept) |-> kept[i].prompt_id]

getBestPromptIds_ExactMax(results) ==
    IF IsNullish(results) \/ Len(results.items) = 0 THEN << >>
    ELSE LET items == results.items
             maxScore == MathMax([i \in 1..Len(items) |-> items[i].total_score])
             kept == Filter(items, {i \in 1..Len(items) :
                                        items[i].total_score = maxScore})
         IN  [i \in 1..Len(kept) |-> kept[i].prompt_id]

\* results: null, undefined or [kind |-> "array", items |-> <<PromptResult>>]
getBestPromptIds(results) ==
    IF IsNullish(results) \/ Len(results.items) = 0 THEN << >>
    ELSE BestIdsOf(results.items)

-----------------------------------------------------------------------------
(* components/EvaluationTable.tsx: the pure parts of the component.        *)

\* 'No reasoning available'
NoReasoning == <<"No", " ", "reasoning", " ", "available">>

\* the rows pushed for generation genIndex (1-based here, as generationId is)
PanelRowsOfGeneration(gr, genIndex, criterionName) ==
    [evalIndex \in 1..Len(gr.evaluation_results) |->
        LET evalResult == gr.evaluation_results[evalIndex]
        IN  [generationId |-> genIndex,
             generationOutput |-> gr.generation_result.output,
             evaluationId |-> evalIndex,
             score |-> NumberOr(Lookup(evalResult.scores, criterionName), 0),
             reasoning |-> StringOr(Lookup(evalResult.reasoning, criterionName),
                                    NoReasoning),
             isFirstEvalForGeneration |-> (evalIndex = 1)]]

\* generationResults.forEach((gr, genIndex) => evaluations.forEach(... push))
RECURSIVE PanelRows(_, _, _)
PanelRows(generationResults, genIndex, criterionName) ==
    IF genIndex > Len(generationResults) THEN << >>
    ELSE PanelRowsOfGeneration(generationResults[genIndex], genIndex, criterionName)
         \o PanelRows(generationResults, genIndex + 1, criterionName)

\* results: null or [kind |-> "response", results |-> <<PromptResult>>]
getPanelData(results, promptId, criterionName) ==
    IF IsNullish(results) THEN Null
    ELSE LET promptResult ==
                 Find(results.results,
                      {i \in 1..Len(results.results) :
                           results.results[i].prompt_id = promptId})
         IN  IF promptResult.kind = "undefined" THEN Null
             ELSE [kind |-> "panel",
                   evaluationRows |->
                       PanelRows(promptResult.v.generation_evaluation_results,
                                 1, criterionName)]

\* the table's own getBestPromptIds, over the results prop
TableGetBestPromptIds(results) ==
    IF IsNullish(results) \/ Len(results.results) = 0 THEN << >>
    ELSE BestIdsOf(results.results)

-----------------------------------------------------------------------------
(* The inputs the pure functions are applied to.                           *)

\* the longest results array handed to getBestPromptIds
MaxResults == 3
\* the longest criteria array handed to validateCriteriaWeights
MaxCriteriaArg == 3
\* generations, and judge results per generation, of a panel input
MaxPanelGens == 2
MaxPanelEvals == 1

\* total scores: 0.85, and 0.919, 0.9195, 0.92 (at 0.001, at 0.0005 and at 0
\* from the largest)
ScoreSamples == {1700, 1838, 1839, 1840}

\* weights: 0.299, 0.2995, 0.3, 0.301, 0.4 and 1.0
WeightSamples == {598, 599, 600, 602, 800, 2000}

PromptIdOf(i) == "prompt-" \o ToString(i)

ResultArrays ==
    UNION {{[i \in 1..n |-> [prompt_id |-> PromptIdOf(i), total_score |-> sc[i]]] :
                sc \in [1..n -> ScoreSamples]} : n \in 0..MaxResults}

BestPromptInputs ==
    {Null, Undefined} \cup {[kind |-> "array", items |-> a] : a \in ResultArrays}

CriteriaArrays ==
    UNION {{[i \in 1..n |-> [name |-> <<"c" \o ToString(i)>>,
                             description |-> <<"Test">>,
                             weight |-> w[i],
                             score_type |-> "continuous"]] :
                w \in [1..n -> WeightSamples]} : n \in 0..MaxCriteriaArg}

\* one judge result about the criterion "accuracy": nothing recorded for it,
\* score 0 with reasoning '', or a score with a reasoning ('good' or ' ')
EvalSamples ==
    {[evaluation_id |-> "e", scores |-> [clarity |-> 1500],
      reasoning |-> [clarity |-> <<"clear">>]],
     [evaluation_id |-> "e", scores |-> [accuracy |-> 0],
      reasoning |-> [accuracy |-> EmptyString]],
     [evaluation_id |-> "e", scores |-> [accuracy |-> 1500],
      reasoning |-> [accuracy |-> <<"good">>]],
     [evaluation_id |-> "e", scores |-> [accuracy |-> 1500],
      reasoning |-> [accuracy |-> <<Space>>]]}

PanelResponses ==
    UNION {{[kind |-> "response",
             results |-> <<[prompt_id |-> PromptIdOf(1),
                            generation_evaluation_results |->
                                [g \in 1..ng |->
                                    [generation_result |->
                                         [output |-> <<"out" \o ToString(g)>>],
                                     evaluation_results |->
                                         [e \in 1..ne |-> ev[g][e]]]]]>>] :
                ev \in [1..ng -> [1..ne -> EvalSamples]]} :
           ng \in 1..MaxPanelGens, ne \in 1..MaxPanelEvals}

PanelInputs == {Null} \cup PanelResponses

-----------------------------------------------------------------------------
(* Applying the pure functions: call holds the function and the argument   *)
(* it is about to be applied to and, once applied, what it returned.       *)

NoCall == [fn |-> "none", done |-> TRUE]

Pending(fn, arg) == [fn |-> fn, arg |-> arg, done |-> FALSE, ret |-> Undefined]

UtilCalls ==
    {Pending("getBestPromptIds", r) : r \in BestPromptInputs}
    \cup {Pending("validateCriteriaWeights", cs) : cs \in CriteriaArrays}
    \cup {Pending("getPanelData",
                  [results |-> r, promptId |-> id, criterionName |-> "accuracy"]) :
              r \in PanelInputs, id \in {PromptIdOf(1), PromptIdOf(2)}}

Return(value) == call' = [call EXCEPT !.done = TRUE, !.ret = value]

CallGetBestPromptIds ==
    /\ call.fn = "getBestPromptIds" /\ ~call.done
    /\ Return(getBestPromptIds(call.arg))
    /\ UNCHANGED <<formVars, appVars, historyVars, orchVars, runVars>>

CallValidateCriteriaWeights ==
    /\ call.fn = "validateCriteriaWeights" /\ ~call.done
    /\ Return(validateCriteriaWeights(call.arg))
    /\ UNCHANGED <<formVars, appVars, historyVars, orchVars, runVars>>

CallGetPanelData ==
    /\ call.fn = "getPanelData" /\ ~call.done
    /\ Return(getPanelData(call.arg.results, call.arg.promptId,
                           call.arg.criterionName))
    /\ UNCHANGED <<formVars, appVars, historyVars, orchVars, runVars>>

NextUtil ==
    \/ CallGetBestPromptIds
    \/ CallValidateCriteriaWeights
    \/ CallGetPanelData

-----------------------------------------------------------------------------
(* The inputs of the form validation of evaluation.ts.                     *)

\* the longest prompts array and criteria array handed to isFormValid
MaxValidPrompts == 2
MaxValidCriteria == 2

\* '', '  ' and ' p '
TextSamples == {EmptyString, <<Space, Space>>, <<Space, "p", Space>>}

\* criteria with text everywhere and weight 0.5, 0.4995 or 1.0, and
\* criteria of weight 0.5 with a name of '' or a description of '  '
CriterionSamples ==
    {[name |-> <<"n">>, description |-> <<"Test">>, weight |-> w,
      score_type |-> "continuous"] : w \in {999, 1000, 2000}}
    \cup {[name |-> EmptyString, description |-> <<"Test">>, weight |-> 1000,
           score_type |-> "continuous"],
          [name |-> <<"n">>, description |-> <<Space, Space>>, weight |-> 1000,
           score_type |-> "continuous"]}

ValidCalls ==
    {Pending(fn, [prompts |-> ps, criteria |-> cs, testInput |-> t]) :
        fn \in {"validateFormContent", "isFormValid"},
        ps \in UNION {[1..n -> TextSamples] : n \in 0..MaxValidPrompts},
        cs \in UNION {[1..n -> CriterionSamples] : n \in 0..MaxValidCriteria},
        t \in TextSamples}

CallValidateFormContent ==
    /\ call.fn = "validateFormContent" /\ ~call.done
    /\ Return(validateFormContent(call.arg.prompts, call.arg.criteria,
                                  call.arg.testInput))
    /\ UNCHANGED <<formVars, appVars, historyVars, orchVars, runVars>>

CallIsFormValid ==
    /\ call.fn = "isFormValid" /\ ~call.done
    /\ Return(utilsIsFormValid(call.arg.prompts, call.arg.criteria,
                               call.arg.testInput))
    /\ UNCHANGED <<formVars, appVars, historyVars, orchVars, runVars>>

NextValid ==
    \/ CallValidateFormContent
    \/ CallIsFormValid

-----------------------------------------------------------------------------
(* components/EvaluationTable.tsx: the form.                               *)

defaultCriteria ==
    <<[name |-> <<"accuracy">>,
       description |-> <<"How accurate and correct is the response?">>,
       weight |-> 800, score_type |-> "continuous"],
      [name |-> <<"relevance">>,
       description |-> <<"How relevant is the response to the input?">>,
       weight |-> 600, score_type |-> "continuous"],
      [name |-> <<"clarity">>,
       description |-> <<"How clear and well-structured is the response?">>,
       weight |-> 600, score_type |-> "continuous"]>>

\* useState(3) of generationCount and of evaluationCount
DefaultGenerationCount == 3
DefaultEvaluationCount == 3

\* the state after the first render, with no initialData
InitForm ==
    /\ testInput = EmptyString
    /\ expectedOutput = EmptyString
    /\ generationCount = DefaultGenerationCount
    /\ evaluationCount = DefaultEvaluationCount
    /\ prompts = <<EmptyString>>
    /\ criteria = defaultCriteria
    /\ generationProvider = EmptyString
    /\ generationModel = EmptyString
    /\ evaluationProvider = EmptyString
    /\ evaluationModel = EmptyString
    /\ useAdvancedModelSettings = FALSE
    /\ initialData = Null
    /\ lastOp = "none"
    /\ onEvaluateCalls = << >>

\* !!x for a string: '' is falsy
Truthy(str) == str # EmptyString

\* an optional field of a request: present with a value, or undefined
Some(v) == [kind |-> "value", v |-> v]

\* x || d for an optional field holding a string: undefined and '' are falsy
FieldOr(x, d) == IF x.kind = "undefined" \/ x.v = EmptyString THEN d ELSE x.v

\* x || d for an optional field holding an array: only undefined is falsy
ArrayOr(x, d) == IF x.kind = "undefined" THEN d ELSE x.v

\* x || d for an optional field holding a number
CountOr(x, d) == IF x.kind = "undefined" \/ x.v = 0 THEN d ELSE x.v

\* the value of a decimal digit character
DigitValue(c) ==
    CASE c = "0" -> 0 [] c = "1" -> 1 [] c = "2" -> 2 [] c = "3" -> 3
      [] c = "4" -> 4 [] c = "5" -> 5 [] c = "6" -> 6 [] c = "7" -> 7
      [] c = "8" -> 8 [] c = "9" -> 9

IsDigit(c) == c \in {"0", "1", "2", "3", "4", "5", "6", "7", "8", "9"}

NaN == [kind |-> "NaN"]

\* the digits at the head of text, read in the given radix: NaN when text
\* does not start with a digit
RECURSIVE ReadDigits(_, _, _)
ReadDigits(text, radix, acc) ==
    IF text = << >> \/ ~IsDigit(Head(text)) THEN acc
    ELSE ReadDigits(Tail(text), radix,
                    Some((IF acc.kind = "NaN" THEN 0 ELSE acc.v) * radix
                         + DigitValue(Head(text))))

\* parseInt(text) with no radix: leading white space, a sign, a 0x prefix
\* (hexadecimal), then digits up to the first character that is none
ParseInt(text) ==
    LET t == TrimStart(text)
        negative == t # << >> /\ Head(t) = "-"
        unsigned == IF t # << >> /\ Head(t) \in {"-", "+"} THEN Tail(t) ELSE t
        hex == Len(unsigned) >= 2 /\ unsigned[1] = "0" /\ unsigned[2] \in {"x", "X"}
        n == IF hex THEN ReadDigits(Tail(Tail(unsigned)), 16, NaN)
             ELSE ReadDigits(unsigned, 10, NaN)
    IN  IF n.kind = "NaN" THEN NaN
        ELSE Some(IF negative THEN -(n.v) ELSE n.v)

\* parseInt(e.target.value) || 1: NaN and 0 are falsy
ParseIntOr1(text) ==
    LET n == ParseInt(text) IN IF n.kind = "NaN" \/ n.v = 0 THEN 1 ELSE n.v

\* parseFloat(e.target.value) || 0, the typed weight already read as a
\* number of the grid or as NaN
ParseFloatOr0(typed) == IF typed.kind = "NaN" THEN 0 ELSE typed.v

\* `criterion_${n}`
CriterionName(n) == <<"criterion_" \o ToString(n)>>

\* at most 10 prompts and 10 criteria
MaxPrompts == 10
MaxCriteria == 10
\* min="1" max="10" of the two count inputs
MinCount == 1
MaxCount == 10
\* the weight 0.1 of an added criterion
NewCriterionWeight == 200

\* s with its element at index (1-based) removed: filter((_, i) => i !== index)
RemoveAt(s, index) == Filter(s, (1..Len(s)) \ {index})

totalWeight == ReduceWeights(criteria, 0)

isWeightValid == MathAbs(totalWeight - One) < Tolerance

isFormValid_NoWeightCheck ==
    /\ Trim(testInput) # EmptyString
    /\ \A i \in 1..Len(prompts) : Trim(prompts[i]) # EmptyString
    /\ \A i \in 1..Len(criteria) :
           Trim(criteria[i].name) # EmptyString
           /\ Trim(criteria[i].description) # EmptyString

isFormValid ==
    /\ Trim(testInput) # EmptyString
    /\ \A i \in 1..Len(prompts) : Trim(prompts[i]) # EmptyString
    /\ isWeightValid
    /\ \A i \in 1..Len(criteria) :
           Trim(criteria[i].name) # EmptyString
           /\ Trim(criteria[i].description) # EmptyString

\* the request, were the generation provider sent whether or not a model is chosen
BuildRequest_ProviderOnly ==
    LET advancedGeneration ==
            useAdvancedModelSettings /\ Truthy(generationProvider)
        advancedEvaluation ==
            useAdvancedModelSettings /\ Truthy(evaluationProvider)
            /\ Truthy(evaluationModel)
    IN  [prompts |-> Filter(prompts, {i \in 1..Len(prompts) :
                                          Trim(prompts[i]) # EmptyString}),
         test_input |-> testInput,
         expected_output |-> IF Truthy(expectedOutput) THEN Some(expectedOutput)
                             ELSE Undefined,
         criteria |-> criteria,
         generation_count |-> generationCount,
         evaluation_count |-> evaluationCount,
         generation_provider |-> IF advancedGeneration
                                 THEN Some(generationProvider) ELSE Undefined,
         generation_model |-> IF advancedGeneration /\ Truthy(generationModel)
                              THEN Some(generationModel) ELSE Undefined,
         evaluation_provider |-> IF advancedEvaluation
                                 THEN Some(evaluationProvider) ELSE Undefined,
         evaluation_model |-> IF advancedEvaluation
                              THEN Some(evaluationModel) ELSE Undefined]

\* the request handleEvaluate builds from the form
BuildRequest ==
    LET advancedGeneration ==
            useAdvancedModelSettings /\ Truthy(generationProvider)
            /\ Truthy(generationModel)
        advancedEvaluation ==
            useAdvancedModelSettings /\ Truthy(evaluationProvider)
            /\ Truthy(evaluationModel)
    IN  [prompts |-> Filter(prompts, {i \in 1..Len(prompts) :
                                          Trim(prompts[i]) # EmptyString}),
         test_input |-> testInput,
         expected_output |-> IF Truthy(expectedOutput) THEN Some(expectedOutput)
                             ELSE Undefined,
         criteria |-> criteria,
         generation_count |-> generationCount,
         evaluation_count |-> evaluationCount,
         generation_provider |-> IF advancedGeneration
                                 THEN Some(generationProvider) ELSE Undefined,
         generation_model |-> IF advancedGeneration
                              THEN Some(generationModel) ELSE Undefined,
         evaluation_provider |-> IF advancedEvaluation
                                 THEN Some(evaluationProvider) ELSE Undefined,
         evaluation_model |-> IF advancedEvaluation
                              THEN Some(evaluationModel) ELSE Undefined]

-----------------------------------------------------------------------------
(* The handlers of the form.  Each records its name in lastOp and the      *)
(* requests it passed to onEvaluate in onEvaluateCalls.                    *)

Ran(op, calls) == lastOp' = op /\ onEvaluateCalls' = calls

promptVars == <<prompts>>
criteriaVars == <<criteria>>
countVars == <<generationCount, evaluationCount>>
modelVars == <<generationProvider, generationModel, evaluationProvider,
               evaluationModel, useAdvancedModelSettings>>
textVars == <<testInput, expectedOutput>>

\* onChange of the test input
SetTestInput(value) ==
    /\ testInput' = value
    /\ Ran("setTestInput", << >>)
    /\ UNCHANGED <<backVars, expectedOutput, promptVars, criteriaVars, countVars,
                   modelVars, initialData>>

\* onChange of the two count inputs
SetGenerationCount(text) ==
    /\ generationCount' = ParseIntOr1(text)
    /\ Ran("setGenerationCount", << >>)
    /\ UNCHANGED <<backVars, textVars, promptVars, criteriaVars, evaluationCount,
                   modelVars, initialData>>

SetEvaluationCount(text) ==
    /\ evaluationCount' = ParseIntOr1(text)
    /\ Ran("setEvaluationCount", << >>)
    /\ UNCHANGED <<backVars, textVars, promptVars, criteriaVars, generationCount,
                   modelVars, initialData>>

addPrompt_NoGuard ==
    /\ prompts' = Append(prompts, EmptyString)
    /\ Ran("addPrompt", << >>)
    /\ UNCHANGED <<backVars, textVars, criteriaVars, countVars, modelVars,
                   initialData>>

addPrompt ==
    /\ prompts' = IF Len(prompts) < MaxPrompts
                  THEN Append(prompts, EmptyString) ELSE prompts
    /\ Ran("addPrompt", << >>)
    /\ UNCHANGED <<backVars, textVars, criteriaVars, countVars, modelVars,
                   initialData>>

removePrompt_NoGuard(index) ==
    /\ prompts' = RemoveAt(prompts, index)
    /\ Ran("removePrompt", << >>)
    /\ UNCHANGED <<backVars, textVars, criteriaVars, countVars, modelVars,
                   initialData>>

removePrompt(index) ==
    /\ prompts' = IF Len(prompts) > 1 THEN RemoveAt(prompts, index) ELSE prompts
    /\ Ran("removePrompt", << >>)
    /\ UNCHANGED <<backVars, textVars, criteriaVars, countVars, modelVars,
                   initialData>>

updatePrompt(index, value) ==
    /\ prompts' = [prompts EXCEPT ![index] = value]
    /\ Ran("updatePrompt", << >>)
    /\ UNCHANGED <<backVars, textVars, criteriaVars, countVars, modelVars,
                   initialData>>

addCriterion_NoGuard ==
    /\ criteria' = Append(criteria,
                          [name |-> CriterionName(Len(criteria) + 1),
                           description |-> <<"New criterion">>,
                           weight |-> NewCriterionWeight,
                           score_type |-> "continuous"])
    /\ Ran("addCriterion", << >>)
    /\ UNCHANGED <<backVars, textVars, promptVars, countVars, modelVars,
                   initialData>>

addCriterion ==
    /\ criteria' = IF Len(criteria) < MaxCriteria
                   THEN Append(criteria,
                               [name |-> CriterionName(Len(criteria) + 1),
                                description |-> <<"New criterion">>,
                                weight |-> NewCriterionWeight,
                                score_type |-> "continuous"])
                   ELSE criteria
    /\ Ran("addCriterion", << >>)
    /\ UNCHANGED <<backVars, textVars, promptVars, countVars, modelVars,
                   initialData>>

removeCriterion(index) ==
    /\ criteria' = IF Len(criteria) > 1 THEN RemoveAt(criteria, index)
                   ELSE criteria
    /\ Ran("removeCriterion", << >>)
    /\ UNCHANGED <<backVars, textVars, promptVars, countVars, modelVars,
                   initialData>>

\* updateCriterion(index, field, value), field one of name, description, weight
updateCriterion(index, field, value) ==
    /\ criteria' = [criteria EXCEPT ![index] = [@ EXCEPT ![field] = value]]
    /\ Ran("updateCriterion", << >>)
    /\ UNCHANGED <<backVars, textVars, promptVars, countVars, modelVars,
                   initialData>>

handleEvaluate ==
    /\ Ran("handleEvaluate",
           IF ~isFormValid THEN << >> ELSE <<BuildRequest>>)
    /\ UNCHANGED <<backVars, textVars, promptVars, criteriaVars, countVars,
                   modelVars, initialData>>

\* the effect on [initialData]: App hands the form the request of a
\* historical evaluation, and the form takes its fields over
LoadInitialData(data) ==
    /\ initialData' = data
    /\ Ran("loadInitialData", << >>)
    /\ IF IsNullish(data)
       THEN UNCHANGED <<textVars, promptVars, criteriaVars, countVars, modelVars>>
       ELSE /\ testInput' = FieldOr(data.test_input, EmptyString)
            /\ expectedOutput' = FieldOr(data.expected_output, EmptyString)
            /\ generationCount' = CountOr(data.generation_count,
                                          DefaultGenerationCount)
            /\ evaluationCount' = CountOr(data.evaluation_count,
                                          DefaultEvaluationCount)
            /\ prompts' = ArrayOr(data.prompts, <<EmptyString>>)
            /\ criteria' = ArrayOr(data.criteria, defaultCriteria)
            /\ generationProvider' =
                   FieldOr(data.generation_provider, generationProvider)
            /\ useAdvancedModelSettings' =
                   IF FieldOr(data.generation_provider, EmptyString) # EmptyString
                   THEN TRUE ELSE useAdvancedModelSettings
            /\ generationModel' = FieldOr(data.generation_model, generationModel)
            /\ evaluationProvider' =
                   FieldOr(data.evaluation_provider, evaluationProvider)
            /\ evaluationModel' = FieldOr(data.evaluation_model, evaluationModel)
    /\ UNCHANGED backVars

\* onChange of the 'Advanced Model Configuration' checkbox
setUseAdvancedModelSettings(checked) ==
    /\ useAdvancedModelSettings' = checked
    /\ Ran("setUseAdvancedModelSettings", << >>)
    /\ UNCHANGED <<backVars, textVars, promptVars, criteriaVars, countVars,
                   generationProvider, generationModel, evaluationProvider,
                   evaluationModel, initialData>>

\* onModelChange of the 'Generation Model' selector
onGenerationModelChange(provider, model) ==
    /\ generationProvider' = provider
    /\ generationModel' = model
    /\ Ran("onGenerationModelChange", << >>)
    /\ UNCHANGED <<backVars, textVars, promptVars, criteriaVars, countVars,
                   evaluationProvider, evaluationModel, useAdvancedModelSettings,
                   initialData>>

\* onModelChange of the 'Evaluation Model' selector
onEvaluationModelChange(provider, model) ==
    /\ evaluationProvider' = provider
    /\ evaluationModel' = model
    /\ Ran("onEvaluationModelChange", << >>)
    /\ UNCHANGED <<backVars, textVars, promptVars, criteriaVars, countVars,
                   generationProvider, generationModel, useAdvancedModelSettings,
                   initialData>>

-----------------------------------------------------------------------------
(* What the user does to the form: the handlers, applied to inputs drawn   *)
(* from small sets.                                                        *)

\* the user edits only the first MaxEditIndex prompts and criteria
MaxEditIndex == 1
\* in SpecForm the user stops adding prompts at MaxFormPrompts
MaxFormPrompts == 2
\* in SpecCriteria the user stops adding criteria at MaxFormCriteria
MaxFormCriteria == 5
\* the longest text typed into a count input
MaxCountChars == 2

Min(a, b) == IF a < b THEN a ELSE b

TestInputTexts == {EmptyString, <<Space>>, <<"What is the capital of France?">>}
PromptTexts == {EmptyString, <<Space>>, <<"Test prompt">>}
CriterionNameTexts == {<<Space>>, <<"accuracy">>}
DescriptionTexts == {EmptyString, <<"How accurate and correct is the response?">>}
\* typed weights: not a number, 0.399, 0.3995, 0.4
TypedWeights == {NaN, Some(798), Some(799), Some(800)}
CountChars == {"-", "0", "1", "x"}
CountTexts == UNION {[1..n -> CountChars] : n \in 0..MaxCountChars}

\* requests of earlier evaluations, as the history returns them: each passed
\* the validation of the request boundary (1 to 10 non-empty prompts, a
\* non-empty test input, counts in 1..10, weights summing to 1.0).  The first
\* is the one of the component's tests; the second has the most prompts, its
\* own models, and leaves criteria and counts to their defaults.
HistoricalPrompt == <<"Historical prompt">>

HistoricalRequests ==
    {[prompts |-> Some(<<HistoricalPrompt>>),
      test_input |-> Some(<<"Historical test input">>),
      expected_output |-> Some(<<"Historical expected output">>),
      criteria |-> Some(<<[name |-> <<"accuracy">>, description |-> <<"Test">>,
                           weight |-> One, score_type |-> "continuous"]>>),
      generation_count |-> Some(2),
      evaluation_count |-> Some(1),
      generation_provider |-> Undefined, generation_model |-> Undefined,
      evaluation_provider |-> Undefined, evaluation_model |-> Undefined,
      kind |-> "request"],
     [prompts |-> Some([i \in 1..MaxPrompts |-> HistoricalPrompt]),
      test_input |-> Some(<<"Historical test input">>),
      expected_output |-> Undefined,
      criteria |-> Undefined,
      generation_count |-> Undefined,
      evaluation_count |-> Undefined,
      generation_provider |-> Some(<<"openai">>),
      generation_model |-> Some(<<"gpt-4o-mini">>),
      evaluation_provider |-> Some(<<"anthropic">>),
      evaluation_model |-> Some(<<"claude-3-5-haiku">>),
      kind |-> "request"]}

\* App sets initialFormData (a historical evaluation is selected, or the
\* history is cleared) and the form's effect runs
AppSetsInitialData ==
    \E data \in HistoricalRequests \cup {Null} : LoadInitialData(data)

UserSetsTestInput == \E value \in TestInputTexts : SetTestInput(value)

UserSetsGenerationCount == \E text \in CountTexts : SetGenerationCount(text)

UserSetsEvaluationCount == \E text \in CountTexts : SetEvaluationCount(text)

UserAddsPrompt == addPrompt

UserAddsPromptUpTo == Len(prompts) < MaxFormPrompts /\ addPrompt

UserRemovesPrompt == \E index \in 1..Len(prompts) : removePrompt(index)

UserEditsPrompt ==
    \E index \in 1..Min(Len(prompts), MaxEditIndex), value \in PromptTexts :
        updatePrompt(index, value)

UserAddsCriterion == addCriterion

UserAddsCriterionUpTo == Len(criteria) < MaxFormCriteria /\ addCriterion

UserRemovesCriterion == \E index \in 1..Len(criteria) : removeCriterion(index)

UserRemovesCriterionAtEnd ==
    \E index \in {1, Len(criteria)} : removeCriterion(index)

UserEditsCriterionName ==
    \E index \in 1..Min(Len(criteria), MaxEditIndex), value \in CriterionNameTexts :
        updateCriterion(index, "name", value)

UserEditsCriterionDescription ==
    \E index \in 1..Min(Len(criteria), MaxEditIndex), value \in DescriptionTexts :
        updateCriterion(index, "description", value)

UserEditsCriterionWeight ==
    \E index \in 1..Min(Len(criteria), MaxEditIndex), typed \in TypedWeights :
        updateCriterion(index, "weight", ParseFloatOr0(typed))

UserClicksEvaluate == handleEvaluate

\* what a selector passes to onModelChange: nothing selected, a provider
\* whose model is not chosen yet, a provider and one of its models
GenerationSelections ==
    {<<EmptyString, EmptyString>>, <<<<"anthropic">>, EmptyString>>,
     <<<<"anthropic">>, <<"claude-3-5-sonnet">>>>}

EvaluationSelections ==
    {<<EmptyString, EmptyString>>, <<<<"openai">>, EmptyString>>,
     <<<<"openai">>, <<"gpt-4o">>>>}

UserChecksAdvancedModels ==
    \E checked \in BOOLEAN : setUseAdvancedModelSettings(checked)

\* the selectors are rendered under useAdvancedModelSettings only
UserSelectsGenerationModel ==
    /\ useAdvancedModelSettings
    /\ \E selection \in GenerationSelections :
           onGenerationModelChange(selection[1], selection[2])

UserSelectsEvaluationModel ==
    /\ useAdvancedModelSettings
    /\ \E selection \in EvaluationSelections :
           onEvaluationModelChange(selection[1], selection[2])

\* the form filled in and checked: every way of being invalid
NextForm ==
    \/ UserSetsTestInput
    \/ UserAddsPromptUpTo
    \/ UserRemovesPrompt
    \/ UserEditsPrompt
    \/ UserEditsCriterionName
    \/ UserEditsCriterionDescription
    \/ UserEditsCriterionWeight
    \/ UserClicksEvaluate

\* the prompt list edited, a historical request loaded
NextPrompts ==
    \/ UserSetsTestInput
    \/ UserAddsPrompt
    \/ UserRemovesPrompt
    \/ UserEditsPrompt
    \/ AppSetsInitialData
    \/ UserClicksEvaluate

\* the models chosen, a historical request loaded
NextModels ==
    \/ UserSetsTestInput
    \/ UserEditsPrompt
    \/ UserChecksAdvancedModels
    \/ UserSelectsGenerationModel
    \/ UserSelectsEvaluationModel
    \/ AppSetsInitialData
    \/ UserClicksEvaluate

\* the two count inputs typed into
NextCounts ==
    \/ UserSetsTestInput
    \/ UserEditsPrompt
    \/ UserSetsGenerationCount
    \/ UserSetsEvaluationCount
    \/ UserClicksEvaluate

\* criteria added and removed
NextCriteria ==
    \/ UserSetsTestInput
    \/ UserEditsPrompt
    \/ UserAddsCriterionUpTo
    \/ UserRemovesCriterion
    \/ UserClicksEvaluate

\* criteria added up to the limit of the form, and the first or the last
\* one removed
NextCriteriaCount ==
    \/ UserAddsCriterion
    \/ UserRemovesCriterionAtEnd

-----------------------------------------------------------------------------
(* The Aggregator, as spec.md 4.3 describes it.  A mean is an exact        *)
(* fraction num/den of grid units, in lowest terms; a standard deviation   *)
(* is kept as the variance it is the square root of.                       *)

RECURSIVE Gcd(_, _)
Gcd(a, b) == IF b = 0 THEN a ELSE Gcd(b, a % b)

\* the one element of a singleton
The(S) == CHOOSE x \in S : TRUE

\* n/d in lowest terms, d > 0.  Here and below the operands are bound to
\* their values (x \in {a}) before they are used, so that each is
\* evaluated once.
Rat(n, d) ==
    The({The({[num |-> x \div g, den |-> y \div g] : g \in {Gcd(MathAbs(x), y)}}) :
             x \in {n}, y \in {d}})

\* sums over the least common denominator, products and quotients after
\* cancelling common factors: the intermediate values stay small
RatAdd(a, b) ==
    The({The({Rat(x.num * (y.den \div g) + y.num * (x.den \div g),
                  (x.den \div g) * y.den) : g \in {Gcd(x.den, y.den)}}) :
             x \in {a}, y \in {b}})
RatNeg(a) == The({[num |-> 0 - x.num, den |-> x.den] : x \in {a}})
RatSub(a, b) == RatAdd(a, RatNeg(b))
RatMul(a, b) ==
    The({The({Rat((x.num \div g) * (y.num \div h),
                  (x.den \div h) * (y.den \div g)) :
                  g \in {Gcd(MathAbs(x.num), y.den)},
                  h \in {Gcd(MathAbs(y.num), x.den)}}) :
             x \in {a}, y \in {b}})
RatDivInt(a, n) ==
    The({The({Rat(x.num \div g, x.den * (n \div g)) :
                  g \in {Gcd(MathAbs(x.num), n)}}) : x \in {a}})
RatLeq(a, b) == The({x.num * y.den <= y.num * x.den : x \in {a}, y \in {b}})

\* the sum of a sequence of fractions, left to right
RECURSIVE RatSumFrom(_, _, _)
RatSumFrom(s, i, acc) ==
    IF i > Len(s) THEN acc ELSE RatSumFrom(s, i + 1, RatAdd(acc, s[i]))
RatSum(s) == The({RatSumFrom(x, 1, Rat(0, 1)) : x \in {s}})

\* mean(xs) of a non-empty sequence
Mean(s) == The({RatDivInt(RatSum(x), Len(x)) : x \in {s}})

\* the square of a difference of scores; a square is in units^2 and is
\* brought back to units
RatSquare(a) == The({RatMul(x, RatDivInt(x, One)) : x \in {a}})

\* the sample variance (divide by N-1) of a sequence of two or more
SampleVariance(s) ==
    The({RatDivInt(RatSum([i \in 1..Len(s) |-> RatSquare(RatSub(s[i], mu))]),
                   Len(s) - 1) : mu \in {Mean(s)}})

\* the population variance (divide by N): defined for one value too
PopulationVariance(s) ==
    The({RatDivInt(RatSum([i \in 1..Len(s) |-> RatSquare(RatSub(s[i], mu))]),
                   Len(s)) : mu \in {Mean(s)}})

StdDev(variance) == [sqrt_of |-> variance]

\* the names of the criteria: the keys of every score and reasoning map
CriterionNames(cs) == {cs[i].name : i \in 1..Len(cs)}

\* r.scores[c], a missing key counting as score 0
ScoreOrZero(r, c) == IF c \in DOMAIN r.scores THEN Rat(r.scores[c], 1) ELSE Rat(0, 1)

\* r.reasoning[c]: an empty string is present, a missing key yields the
\* fallback text
ReasoningOrFallback(r, c) ==
    IF c \in DOMAIN r.reasoning THEN r.reasoning[c] ELSE NoReasoning

\* aggregateJudgeResults(results, criteria) -> (scores, reasoning)
aggregateJudgeResults(results, cs) ==
    [scores |-> [c \in CriterionNames(cs) |->
                     Mean([i \in 1..Len(results) |-> ScoreOrZero(results[i], c)])],
     reasoning |-> [c \in CriterionNames(cs) |->
                        [i \in 1..Len(results) |->
                             ReasoningOrFallback(results[i], c)]]]

\* sum over criteria of finalScores[c] * weight[c], weights as given
RECURSIVE WeightedSumFrom(_, _, _, _)
WeightedSumFrom(finalScores, cs, i, acc) ==
    IF i > Len(cs) THEN acc
    ELSE WeightedSumFrom(finalScores, cs, i + 1,
             RatAdd(acc, RatMul(finalScores[cs[i].name], Rat(cs[i].weight, One))))
WeightedSum(finalScores, cs) == WeightedSumFrom(finalScores, cs, 1, Rat(0, 1))

\* what the reduction yields over no generation at all, where the mean has
\* a zero denominator: all-zero scores, or no score for any criterion
ZeroDenominatorOutcomes == {"zero_scores", "undefined_scores"}

\* the standard deviations: computed only if len(generationResults) > 1;
\* the variant computes them (over N) whenever there is a generation
ScoreStdDevs_Always(generationResults, cs) ==
    IF Len(generationResults) > 0
    THEN Some([c \in CriterionNames(cs) |->
                  StdDev(PopulationVariance(
                      [g \in 1..Len(generationResults) |->
                           generationResults[g].aggregated_scores[c]]))])
    ELSE Undefined
ScoreStdDevs(generationResults, cs) ==
    IF Len(generationResults) > 1
    THEN Some([c \in CriterionNames(cs) |->
                  StdDev(SampleVariance(
                      [g \in 1..Len(generationResults) |->
                           generationResults[g].aggregated_scores[c]]))])
    ELSE Undefined

\* the weights the total is computed with: as given, not renormalized;
\* the variant lets every criterion count in full
TotalWeights_Unit(cs) == [i \in 1..Len(cs) |-> [cs[i] EXCEPT !.weight = One]]
TotalWeights(cs) == cs

\* aggregatePromptResults(generationResults, criteria)
\*     -> (finalScores, stdDevs, totalScore)
aggregatePromptResults(generationResults, cs, whenNone) ==
    IF Len(generationResults) = 0
    THEN IF whenNone = "zero_scores"
         THEN [final_scores |-> [c \in CriterionNames(cs) |-> Rat(0, 1)],
               score_std_devs |-> Undefined,
               total_score |-> Rat(0, 1)]
         ELSE [final_scores |-> [c \in {} |-> Rat(0, 1)],
               score_std_devs |-> Undefined,
               total_score |-> Rat(0, 1)]
    ELSE LET finalScores ==
                 [c \in CriterionNames(cs) |->
                      Mean([g \in 1..Len(generationResults) |->
                                generationResults[g].aggregated_scores[c]])]
         IN  [final_scores |-> finalScores,
              score_std_devs |-> ScoreStdDevs(generationResults, cs),
              total_score |-> WeightedSum(finalScores, TotalWeights(cs))]

-----------------------------------------------------------------------------
(* The inputs the Aggregator is applied to.                                *)

\* the most criteria, and the most generation results, of an input
MaxAggCriteria == 2
MaxAggGens == 2

\* weights: -0.1, 0, 0.4995, 0.5, 0.5005, 0.501 and 1.1
AggWeightSamples == {-200, 0, 999, 1000, 1001, 1002, 2200}

AggCriterionName(i) == "criterion_" \o ToString(i)

AggCriteria ==
    UNION {{[i \in 1..n |-> [name |-> AggCriterionName(i),
                             description |-> <<"Test">>,
                             weight |-> w[i],
                             score_type |-> "continuous"]] :
                w \in [1..n -> AggWeightSamples]} : n \in 1..MaxAggCriteria}

\* the aggregated scores of one generation: 1.0 everywhere, or 1/(i+1)
\* for the i-th criterion
AggProfiles == {"one", "mixed"}
AggScoresOf(profile, n) ==
    [c \in {AggCriterionName(i) : i \in 1..n} |->
        IF profile = "one" THEN Rat(One, 1)
        ELSE Rat(One, 1 + (CHOOSE i \in 1..n : AggCriterionName(i) = c))]

AggGenerationResults(n) ==
    UNION {{[g \in 1..ng |-> [aggregated_scores |-> AggScoresOf(pr[g], n)]] :
                pr \in [1..ng -> AggProfiles]} : ng \in 0..MaxAggGens}

AggCalls ==
    UNION {{Pending("aggregatePromptResults",
                    [generationResults |-> grs, criteria |-> cs, whenNone |-> wn]) :
                cs \in AggCriteria,
                wn \in IF grs = << >> THEN ZeroDenominatorOutcomes
                                      ELSE {"zero_scores"}} :
           grs \in AggGenerationResults(MaxAggCriteria)}

CallAggregatePromptResults ==
    /\ call.fn = "aggregatePromptResults" /\ ~call.done
    /\ Return(aggregatePromptResults(call.arg.generationResults,
                                     call.arg.criteria, call.arg.whenNone))
    /\ UNCHANGED <<formVars, appVars, historyVars, orchVars, runVars>>

NextAgg == CallAggregatePromptResults

-----------------------------------------------------------------------------
(* The evaluation orchestrator, as spec.md describes it (4.2 algorithm,    *)
(* 5 concurrency and resource model, 7 propagation policy).  The provider  *)
(* is a pair of deterministic stubs: what a call returns depends only on   *)
(* the position it was launched at.  Whether a call succeeds, and the      *)
(* order in which the calls settle, are free.                              *)

\* the most provider calls (generate and judge) of one evaluated request
MaxOrchCalls == 8

\* prompts, generations per prompt and judge calls per generation
RequestShapes ==
    {t \in (1..MaxOrchCalls) \X (1..MaxOrchCalls) \X (1..MaxOrchCalls) :
         t[1] * t[2] * (1 + t[3]) <= MaxOrchCalls}

\* the criteria of the evaluated requests: accuracy alone, weight 1.0
OrchCriteria ==
    <<[name |-> "accuracy", description |-> <<"Test">>, weight |-> One,
       score_type |-> "continuous"]>>

OrchRequests ==
    {[kind |-> "request",
      prompts |-> [p \in 1..t[1] |-> <<"prompt", Space, ToString(p)>>],
      criteria |-> OrchCriteria,
      generation_count |-> t[2],
      evaluation_count |-> t[3]] : t \in RequestShapes}

PromptCount == IF IsNullish(orchRequest) THEN 0 ELSE Len(orchRequest.prompts)

\* a provider call, named by the position it is launched at
GenerateCall(p, g) ==
    [kind |-> "generate", prompt |-> p, generation |-> g, evaluation |-> 0]
JudgeCall(p, g, j) ==
    [kind |-> "judge", prompt |-> p, generation |-> g, evaluation |-> j]

CallName(p, g, j) == ToString(p) \o "-" \o ToString(g) \o "-" \o ToString(j)

\* generate(promptText, modelSelector) -> outputText
GenerationResultOf(p, g) ==
    [generation_id |-> "generation-" \o CallName(p, g, 0),
     output |-> <<"output-" \o CallName(p, g, 0)>>]

\* judge(...) -> (scoresByCriterion, reasoningByCriterion), scores in [0, 1]
JudgeScore(p, g, j) == (100 * p + 10 * g + j) % (One + 1)
EvaluationResultOf(p, g, j) ==
    [evaluation_id |-> "evaluation-" \o CallName(p, g, j),
     scores |-> [accuracy |-> JudgeScore(p, g, j)],
     reasoning |-> [accuracy |-> <<"judged-" \o CallName(p, g, j)>>]]

\* policy (b) of 7: a failed judge call leaves a zero-score placeholder
\* with an explanatory reasoning
FailedEvaluationResultOf(p, g, j) ==
    [evaluation_id |-> "evaluation-" \o CallName(p, g, j),
     scores |-> [accuracy |-> 0],
     reasoning |-> [accuracy |-> <<"Evaluation", Space, "failed">>]]

\* the slots reserved before the fan-out (5: "each task writes to a
\* distinct slot reserved before the fan-out")
\* a slot not yet written holds a result without any score or reasoning
NoEvaluationResult == [evaluation_id |-> "", scores |-> << >>, reasoning |-> << >>]
EmptyEvaluationSlot == [status |-> "empty", result |-> NoEvaluationResult]
EmptyGenerationSlot(evalCount) ==
    [status |-> "empty", generation_result |-> Null,
     evaluations |-> [j \in 1..evalCount |-> EmptyEvaluationSlot]]

\* the slot of the call launched at position `launched`: results are
\* re-associated by index; the variant takes the first slot still empty
ReservedSlot_NextFree(slots, launched) ==
    MinIndex({i \in 1..Len(slots) : slots[i].status = "empty"})
ReservedSlot(slots, launched) == launched

\* the calls in flight once `failed` has failed: its siblings are not
\* cancelled; the variant cancels every call of the same prompt
StillInFlight_CancelSiblings(calls, failed) ==
    {c \in calls : c.prompt # failed.prompt}
StillInFlight(calls, failed) == calls \ {failed}

\* the join over the calls of prompt p: failures are outcomes like any
\* other; the variant gives up on a prompt one of whose calls failed
Joined_UnlessFailed(p) ==
    /\ \A c \in inFlight : c.prompt # p
    /\ \A g \in 1..Len(genSlots[p]) :
           /\ genSlots[p][g].status # "failed"
           /\ \A j \in 1..Len(genSlots[p][g].evaluations) :
                  genSlots[p][g].evaluations[j].status # "failed"
Joined(p) == \A c \in inFlight : c.prompt # p

\* the order in which the prompt results enter the response: input order;
\* the variant takes them as they were completed
ResponseOrder_Completion(completed) == completed
ResponseOrder(completed) == [i \in 1..Len(completed) |-> i]

\* the successful generations of a prompt, in slot order, each with its
\* judge results in slot order (a failed generation has no judge results
\* and is left out, 7)
GenerationEvaluationResults(slots, cs) ==
    LET ok == Filter(slots, {g \in 1..Len(slots) : slots[g].status = "ok"})
    IN  [i \in 1..Len(ok) |->
            LET evaluationResults ==
                    [j \in 1..Len(ok[i].evaluations) |->
                         ok[i].evaluations[j].result]
                aggregated == aggregateJudgeResults(evaluationResults, cs)
            IN  [generation_result |-> ok[i].generation_result,
                 evaluation_results |-> evaluationResults,
                 aggregated_scores |-> aggregated.scores,
                 aggregated_reasoning |-> aggregated.reasoning]]

\* the PromptResult of prompt p; whenNone settles the scores when no
\* generation of p returned
PromptResultOf(p, whenNone) ==
    LET generationResults ==
            GenerationEvaluationResults(genSlots[p], orchRequest.criteria)
        reduced == aggregatePromptResults(generationResults,
                                          orchRequest.criteria, whenNone)
    IN  [prompt_id |-> PromptIdOf(p),
         prompt |-> orchRequest.prompts[p],
         generation_evaluation_results |-> generationResults,
         final_scores |-> reduced.final_scores,
         score_std_devs |-> reduced.score_std_devs,
         total_score |-> reduced.total_score,
         generation_count |-> orchRequest.generation_count,
         evaluation_count |-> orchRequest.evaluation_count]

InitOrch ==
    /\ orchRequest = Null
    /\ inFlight = {}
    /\ genSlots = << >>
    /\ promptResults = << >>
    /\ response = Null
    /\ genArrivals = << >>
    /\ finished = << >>
    /\ stubFails = {}
    /\ runs = << >>

-----------------------------------------------------------------------------
(* The orchestrator's steps.                                               *)

\* evaluate(request): reserve the slots, launch every generation of every
\* prompt
evaluate(request) ==
    /\ IsNullish(orchRequest)
    /\ orchRequest' = request
    /\ inFlight' = {GenerateCall(p, g) : p \in 1..Len(request.prompts),
                                         g \in 1..request.generation_count}
    /\ genSlots' = [p \in 1..Len(request.prompts) |->
                       [g \in 1..request.generation_count |->
                            EmptyGenerationSlot(request.evaluation_count)]]
    /\ promptResults' = [p \in 1..Len(request.prompts) |-> Null]
    /\ genArrivals' = [p \in 1..Len(request.prompts) |-> << >>]
    /\ response' = Null
    /\ finished' = << >>
    /\ UNCHANGED <<zeroDenominatorPolicy, utilVars, formVars, appVars, historyVars>>

\* a generate call returns: its output goes to its slot and the judge
\* calls of that generation are launched
generateSucceeds(p, g) ==
    /\ GenerateCall(p, g) \in inFlight
    /\ LET k == ReservedSlot(genSlots[p], g)
       IN  genSlots' = [genSlots EXCEPT
                            ![p][k].status = "ok",
                            ![p][k].generation_result = GenerationResultOf(p, g)]
    /\ inFlight' = (inFlight \ {GenerateCall(p, g)})
                   \cup {JudgeCall(p, g, j) :
                             j \in 1..orchRequest.evaluation_count}
    /\ genArrivals' = [genArrivals EXCEPT ![p] = Append(@, g)]
    /\ UNCHANGED <<orchRequest, promptResults, response, finished,
                   utilVars, formVars, appVars, historyVars, runVars>>

\* a generate call fails (GenerationFailure, a timeout included)
generateFails(p, g) ==
    /\ GenerateCall(p, g) \in inFlight
    /\ LET k == ReservedSlot(genSlots[p], g)
       IN  genSlots' = [genSlots EXCEPT ![p][k].status = "failed"]
    /\ inFlight' = StillInFlight(inFlight, GenerateCall(p, g))
    /\ genArrivals' = [genArrivals EXCEPT ![p] = Append(@, g)]
    /\ UNCHANGED <<orchRequest, promptResults, response, finished,
                   utilVars, formVars, appVars, historyVars, runVars>>

\* a judge call returns
judgeSucceeds(p, g, j) ==
    /\ JudgeCall(p, g, j) \in inFlight
    /\ LET k == ReservedSlot(genSlots[p][g].evaluations, j)
       IN  genSlots' = [genSlots EXCEPT
                            ![p][g].evaluations[k] =
                                [status |-> "ok",
                                 result |-> EvaluationResultOf(p, g, j)]]
    /\ inFlight' = inFlight \ {JudgeCall(p, g, j)}
    /\ UNCHANGED <<orchRequest, promptResults, response, genArrivals,
                   finished, utilVars, formVars, appVars, historyVars, runVars>>

\* a judge call fails (JudgeFailure)
judgeFails(p, g, j) ==
    /\ JudgeCall(p, g, j) \in inFlight
    /\ LET k == ReservedSlot(genSlots[p][g].evaluations, j)
       IN  genSlots' = [genSlots EXCEPT
                            ![p][g].evaluations[k] =
                                [status |-> "failed",
                                 result |-> FailedEvaluationResultOf(p, g, j)]]
    /\ inFlight' = StillInFlight(inFlight, JudgeCall(p, g, j))
    /\ UNCHANGED <<orchRequest, promptResults, response, genArrivals,
                   finished, utilVars, formVars, appVars, historyVars, runVars>>

\* prompt p has its result
Completed(p) == promptResults[p] # Null

\* the aggregation of prompt p, after the join over its calls
aggregatePrompt(p) ==
    /\ ~Completed(p)
    /\ Joined(p)
    /\ promptResults' =
           [promptResults EXCEPT ![p] = PromptResultOf(p, zeroDenominatorPolicy)]
    /\ finished' = Append(finished, p)
    /\ UNCHANGED <<orchRequest, inFlight, genSlots, response, genArrivals,
                   utilVars, formVars, appVars, historyVars, runVars>>

\* after all prompts complete, the response is assembled
assembleResponse ==
    /\ ~IsNullish(orchRequest)
    /\ IsNullish(response)
    /\ \A p \in 1..PromptCount : Completed(p)
    /\ response' = [kind |-> "response",
                    results |-> [i \in 1..PromptCount |->
                                     promptResults[ResponseOrder(finished)[i]]],
                    criteria |-> orchRequest.criteria,
                    status |-> "completed"]
    /\ UNCHANGED <<orchRequest, inFlight, genSlots, promptResults,
                   genArrivals, finished, utilVars, formVars, appVars, historyVars, runVars>>

ClientSubmits ==
    \E request \in OrchRequests : evaluate(request) /\ UNCHANGED <<stubFails, runs>>
GenerationReturns ==
    \E c \in inFlight : c.kind = "generate"
                        /\ generateSucceeds(c.prompt, c.generation)
GenerationFails ==
    \E c \in inFlight : c.kind = "generate"
                        /\ generateFails(c.prompt, c.generation)
JudgeReturns ==
    \E c \in inFlight : c.kind = "judge"
                        /\ judgeSucceeds(c.prompt, c.generation, c.evaluation)
JudgeFails ==
    \E c \in inFlight : c.kind = "judge"
                        /\ judgeFails(c.prompt, c.generation, c.evaluation)
PromptCompletes == \E p \in 1..PromptCount : aggregatePrompt(p)

\* the requests of at most MaxLiveCalls provider calls
MaxLiveCalls == 5
LiveRequests ==
    {r \in OrchRequests :
         Len(r.prompts) * r.generation_count * (1 + r.evaluation_count)
             <= MaxLiveCalls}
ClientSubmitsSmall ==
    \E request \in LiveRequests : evaluate(request) /\ UNCHANGED <<stubFails, runs>>

NextOrchLive ==
    \/ ClientSubmitsSmall
    \/ GenerationReturns
    \/ GenerationFails
    \/ JudgeReturns
    \/ JudgeFails
    \/ PromptCompletes
    \/ assembleResponse

NextOrch ==
    \/ ClientSubmits
    \/ GenerationReturns
    \/ GenerationFails
    \/ JudgeReturns
    \/ JudgeFails
    \/ PromptCompletes
    \/ assembleResponse

-----------------------------------------------------------------------------
(* Two invocations of evaluate on the same request with the same stubs:    *)
(* a stub fails a call or returns what the call's position determines; the *)
(* order in which the calls settle is free in both invocations.            *)

\* the requests of at most MaxRunCalls provider calls
MaxRunCalls == 6
RunRequests ==
    {r \in OrchRequests :
         Len(r.prompts) * r.generation_count * (1 + r.evaluation_count)
             <= MaxRunCalls}

\* the invocations compared
Invocations == 2

\* every provider call the evaluation of a request can make
CallsOf(request) ==
    {GenerateCall(p, g) : p \in 1..Len(request.prompts),
                          g \in 1..request.generation_count}
    \cup {JudgeCall(p, g, j) : p \in 1..Len(request.prompts),
                               g \in 1..request.generation_count,
                               j \in 1..request.evaluation_count}

\* the sets of calls a pair of stubs can fail: a judge call is only made
\* for a generation that returned
StubFailures(request) ==
    {fails \in SUBSET CallsOf(request) :
         \A d \in fails :
             d.kind = "judge"
                 => GenerateCall(d.prompt, d.generation) \notin fails}

\* the first invocation fixes the request and the calls the stubs fail;
\* the second is made with the same
ClientInvokes ==
    /\ Len(runs) < Invocations
    /\ IsNullish(orchRequest)
    /\ IF runs = << >>
       THEN \E request \in RunRequests :
                \E fails \in StubFailures(request) :
                    evaluate(request) /\ stubFails' = fails
       ELSE evaluate(runs[1].request) /\ stubFails' = stubFails
    /\ runs' = runs

StubGenerationReturns ==
    \E c \in inFlight : /\ c.kind = "generate"
                        /\ c \notin stubFails
                        /\ generateSucceeds(c.prompt, c.generation)
StubGenerationFails ==
    \E c \in inFlight : /\ c.kind = "generate"
                        /\ c \in stubFails
                        /\ generateFails(c.prompt, c.generation)
StubJudgeReturns ==
    \E c \in inFlight : /\ c.kind = "judge"
                        /\ c \notin stubFails
                        /\ judgeSucceeds(c.prompt, c.generation, c.evaluation)
StubJudgeFails ==
    \E c \in inFlight : /\ c.kind = "judge"
                        /\ c \in stubFails
                        /\ judgeFails(c.prompt, c.generation, c.evaluation)

\* evaluate returns: the response is handed to the caller and the
\* orchestrator keeps no reference to it (spec.md 3, ownership)
returnResponse ==
    /\ ~IsNullish(response)
    /\ runs' = Append(runs,
                  [request |-> orchRequest,
                   scores |-> [i \in 1..Len(response.results) |->
                                  [final_scores |-> response.results[i].final_scores,
                                   total_score |-> response.results[i].total_score]],
                   genArrivals |-> genArrivals,
                   finished |-> finished])
    /\ orchRequest' = Null
    /\ inFlight' = {}
    /\ genSlots' = << >>
    /\ promptResults' = << >>
    /\ response' = Null
    /\ genArrivals' = << >>
    /\ finished' = << >>
    /\ UNCHANGED <<zeroDenominatorPolicy, stubFails, utilVars, formVars, appVars, historyVars>>

NextRuns ==
    \/ ClientInvokes
    \/ StubGenerationReturns
    \/ StubGenerationFails
    \/ StubJudgeReturns
    \/ StubJudgeFails
    \/ PromptCompletes
    \/ assembleResponse
    \/ returnResponse

-----------------------------------------------------------------------------
(* The table's rows over the response.                                     *)

\* results?.results.find((_, i) => i === promptIndex), indices from 1
RowResult(results, promptIndex) ==
    IF IsNullish(results) THEN Undefined
    ELSE Find(results.results,
              {i \in 1..Len(results.results) : i = promptIndex})

-----------------------------------------------------------------------------
(* App: the evaluation in progress, the error banner, the history panel.   *)

\* the requests the table hands to onEvaluate
AppRequests ==
    {[kind |-> "request", prompts |-> <<ps>>, test_input |-> <<"test">>] :
        ps \in {<<"test">>, <<"other">>}}

\* what apiService.evaluatePrompts resolves with
ApiResponses ==
    {[kind |-> "response", evaluation_id |-> id, status |-> "completed"] :
        id \in {"test-eval-id", "eval-2"}}

\* what it rejects with: an Error (with a message, or with ''), or a value
\* that is not an Error
Rejections ==
    {[kind |-> "Error", message |-> <<"Evaluation failed">>],
     [kind |-> "Error", message |-> EmptyString],
     [kind |-> "string", v |-> <<"String error">>]}

\* what the history panel hands to onSelectEvaluation: an evaluation and
\* the request_data of its history item
HistoryItems ==
    {[evaluation |-> [kind |-> "response", evaluation_id |-> "test-eval",
                      status |-> "completed"],
      request_data |-> [kind |-> "request", prompts |-> <<<<"historical">>>>,
                        test_input |-> <<"historical test">>]],
     [evaluation |-> [kind |-> "response", evaluation_id |-> "old-eval",
                      status |-> "completed"],
      request_data |-> Undefined]}

InitApp ==
    /\ appResults = Null
    /\ loading = FALSE
    /\ error = Null
    /\ isHistoryOpen = FALSE
    /\ initialFormData = Null
    /\ evaluateRequests = << >>
    /\ panelPc = "idle"
    /\ appOp = [op |-> "render", arg |-> Null]
    /\ pendingSinceBefore = FALSE

\* what the form, the utilities and the orchestrator are to App
restVars == <<utilVars, formVars, orchVars, runVars, historyVars>>

AppRan(op, arg) == appOp' = [op |-> op, arg |-> arg]

ErrorMessageOf_AlwaysFallback(err) == <<"An unexpected error occurred">>

\* err instanceof Error ? err.message : 'An unexpected error occurred'
ErrorMessageOf(err) ==
    IF err.kind = "Error" THEN err.message
    ELSE <<"An unexpected error occurred">>

\* handleEvaluate up to its await: setLoading(true); setError(null); the
\* request is sent
App_handleEvaluate(request) ==
    /\ loading' = TRUE
    /\ error' = Null
    /\ evaluateRequests' = Append(evaluateRequests, request)
    /\ AppRan("handleEvaluate", request)
    /\ pendingSinceBefore' = FALSE
    /\ UNCHANGED <<restVars, appResults, isHistoryOpen, initialFormData,
                   panelPc>>

\* handleEvaluate after its await returned: setResults(response); finally
\* setLoading(false)
App_handleEvaluate_resolved(i, resp) ==
    /\ appResults' = resp
    /\ loading' = FALSE
    /\ evaluateRequests' = RemoveAt(evaluateRequests, i)
    /\ AppRan("handleEvaluate.resolved", resp)
    /\ pendingSinceBefore' = FALSE
    /\ UNCHANGED <<restVars, error, isHistoryOpen, initialFormData, panelPc>>

App_handleEvaluate_rejected_NoFinally(i, err) ==
    /\ error' = Some(ErrorMessageOf(err))
    /\ evaluateRequests' = RemoveAt(evaluateRequests, i)
    /\ AppRan("handleEvaluate.rejected", err)
    /\ pendingSinceBefore' = FALSE
    /\ UNCHANGED <<restVars, loading, appResults, isHistoryOpen,
                   initialFormData, panelPc>>

\* handleEvaluate after its await threw: setError(...); finally
\* setLoading(false)
App_handleEvaluate_rejected(i, err) ==
    /\ error' = Some(ErrorMessageOf(err))
    /\ loading' = FALSE
    /\ evaluateRequests' = RemoveAt(evaluateRequests, i)
    /\ AppRan("handleEvaluate.rejected", err)
    /\ pendingSinceBefore' = FALSE
    /\ UNCHANGED <<restVars, appResults, isHistoryOpen, initialFormData,
                   panelPc>>

handleSelectHistoricalEvaluation_KeepsError(evaluation, originalRequest) ==
    /\ appResults' = evaluation
    /\ initialFormData' = originalRequest
    /\ AppRan("handleSelectHistoricalEvaluation",
              [evaluation |-> evaluation, request_data |-> originalRequest])
    /\ pendingSinceBefore' = (evaluateRequests # << >>)
    /\ UNCHANGED <<restVars, error, loading, isHistoryOpen, evaluateRequests>>

handleSelectHistoricalEvaluation(evaluation, originalRequest) ==
    /\ appResults' = evaluation
    /\ initialFormData' = originalRequest
    /\ error' = Null
    /\ AppRan("handleSelectHistoricalEvaluation",
              [evaluation |-> evaluation, request_data |-> originalRequest])
    /\ pendingSinceBefore' = (evaluateRequests # << >>)
    /\ UNCHANGED <<restVars, loading, isHistoryOpen, evaluateRequests>>

handleClearHistory ==
    /\ appResults' = Null
    /\ initialFormData' = Null
    /\ error' = Null
    /\ AppRan("handleClearHistory", Null)
    /\ pendingSinceBefore' = FALSE
    /\ UNCHANGED <<restVars, loading, isHistoryOpen, evaluateRequests, panelPc>>

\* onClick of the history toggle button
toggleHistory ==
    /\ isHistoryOpen' = ~isHistoryOpen
    /\ AppRan("toggleHistory", Null)
    /\ UNCHANGED <<restVars, appResults, loading, error, initialFormData,
                   evaluateRequests, panelPc, pendingSinceBefore>>

\* onClose of the history panel
onClose ==
    /\ isHistoryOpen' = FALSE
    /\ AppRan("onClose", Null)
    /\ UNCHANGED <<restVars, appResults, loading, error, initialFormData,
                   evaluateRequests, pendingSinceBefore>>

\* onClick of Dismiss
dismissError ==
    /\ error' = Null
    /\ AppRan("dismissError", Null)
    /\ UNCHANGED <<restVars, appResults, loading, isHistoryOpen,
                   initialFormData, evaluateRequests, panelPc,
                   pendingSinceBefore>>

\* Start Evaluation, were the button not disabled while loading
UserStartsEvaluation_NotDisabled ==
    /\ panelPc = "idle"
    /\ \E request \in AppRequests : App_handleEvaluate(request)

\* Start Evaluation is clicked: the button is disabled while loading
\* (EvaluationTable), and no handler runs inside another
UserStartsEvaluation ==
    /\ panelPc = "idle" /\ ~loading
    /\ \E request \in AppRequests : App_handleEvaluate(request)

\* the request is answered
ApiResolves ==
    /\ panelPc = "idle"
    /\ \E i \in 1..Len(evaluateRequests), resp \in ApiResponses :
           App_handleEvaluate_resolved(i, resp)

\* the request fails
ApiRejects ==
    /\ panelPc = "idle"
    /\ \E i \in 1..Len(evaluateRequests), err \in Rejections :
           App_handleEvaluate_rejected(i, err)

\* HistoryPanel.handleSelectEvaluation: onSelectEvaluation(evaluation,
\* historyItem.request_data) ...
PanelSelectsEvaluation ==
    /\ panelPc = "idle"
    /\ \E item \in HistoryItems :
           handleSelectHistoricalEvaluation(item.evaluation, item.request_data)
    /\ panelPc' = "selected"

\* ... and then onClose()
PanelCloses ==
    /\ panelPc = "selected"
    /\ onClose
    /\ panelPc' = "idle"

\* the panel's close button or backdrop is clicked
UserClosesPanel ==
    /\ panelPc = "idle" /\ isHistoryOpen
    /\ onClose
    /\ UNCHANGED panelPc

UserTogglesHistory == panelPc = "idle" /\ toggleHistory

\* the banner with Dismiss is rendered while error is truthy
UserDismissesError ==
    /\ panelPc = "idle"
    /\ ~IsNullish(error) /\ error.v # EmptyString
    /\ dismissError

\* Clear & Start New is rendered while the table has initialData
UserClearsHistory ==
    /\ panelPc = "idle"
    /\ ~IsNullish(initialFormData)
    /\ handleClearHistory

ApiSettles == ApiResolves \/ ApiRejects

NextApp ==
    \/ UserStartsEvaluation
    \/ ApiResolves
    \/ ApiRejects
    \/ PanelSelectsEvaluation
    \/ PanelCloses
    \/ UserClosesPanel
    \/ UserTogglesHistory
    \/ UserDismissesError
    \/ UserClearsHistory

-----------------------------------------------------------------------------
(* components/HistoryPanel.tsx: the list of past evaluations.              *)

\* getEvaluationHistory calls made, getEvaluationById calls in flight and
\* selections delivered, at most
MaxHistoryCalls == 2
MaxItemFetches == 1
MaxSelections == 1

\* apiService.getEvaluationHistory(20)
HistoryLimit == 20

HistoryEntry(id) ==
    [evaluation_id |-> id,
     request_data |-> [kind |-> "request", prompts |-> <<<<"historical">>>>,
                       test_input |-> <<"historical test">>]]

\* what getEvaluationHistory resolves with
HistoryLists ==
    {<< >>, <<HistoryEntry("eval-1")>>,
     <<HistoryEntry("eval-2"), HistoryEntry("eval-1")>>}

\* what getEvaluationById(id) resolves with
FetchedEvaluations(id) ==
    {[kind |-> "response", evaluation_id |-> id, status |-> st] :
        st \in {"completed", "failed"}}

\* err instanceof Error ? err.message : fallback
MessageOr(err, fallback) == IF err.kind = "Error" THEN err.message ELSE fallback

\* {error && ...}: a string that is neither null nor ''
ErrorShown(e) == ~IsNullish(e) /\ e.v # EmptyString

PanelRan(op, arg) == panelOp' = [op |-> op, arg |-> arg]

\* loadHistory up to its await: setLoading(true); setError(null); the
\* request is sent
loadHistory ==
    /\ panelLoading' = TRUE
    /\ panelError' = Null
    /\ historyCalls' = Append(historyCalls, HistoryLimit)
    /\ historyFetches' = historyFetches \cup {Len(historyCalls) + 1}

\* the component mounted with isOpen = open, its effect run
MountHistoryPanel(open) ==
    /\ isOpen = open
    /\ evaluations = << >>
    /\ evaluationsFrom = 0
    /\ panelError = Null
    /\ panelLoading = open
    /\ historyCalls = IF open THEN <<HistoryLimit>> ELSE << >>
    /\ historyFetches = IF open THEN {1} ELSE {}
    /\ itemFetches = << >>
    /\ panelCalls = << >>
    /\ panelOp = [op |-> "mount", arg |-> Null]

InitHistoryPanel == MountHistoryPanel(FALSE)

\* what App, the form, the utilities and the orchestrator are to the panel
outerVars == <<utilVars, formVars, orchVars, runVars, appVars>>

useEffect_isOpen_Always(open) ==
    /\ isOpen' = open
    /\ loadHistory
    /\ PanelRan("render", open)
    /\ UNCHANGED <<outerVars, evaluations, evaluationsFrom, itemFetches,
                   panelCalls>>

\* the parent renders the panel with another isOpen; useEffect(() => {
\* if (isOpen) loadHistory() }, [isOpen]) runs
useEffect_isOpen(open) ==
    /\ isOpen' = open
    /\ IF open THEN loadHistory
       ELSE UNCHANGED <<panelLoading, panelError, historyCalls, historyFetches>>
    /\ PanelRan("render", open)
    /\ UNCHANGED <<outerVars, evaluations, evaluationsFrom, itemFetches,
                   panelCalls>>

\* onClick={loadHistory} of Try again and of Refresh History
clickLoadHistory(button) ==
    /\ loadHistory
    /\ PanelRan(button, Null)
    /\ UNCHANGED <<outerVars, isOpen, evaluations, evaluationsFrom,
                   itemFetches, panelCalls>>

\* loadHistory after its await returned: setEvaluations(history); finally
\* setLoading(false)
loadHistory_resolved(k, history) ==
    /\ evaluations' = history
    /\ evaluationsFrom' = k
    /\ panelLoading' = FALSE
    /\ historyFetches' = historyFetches \ {k}
    /\ PanelRan("loadHistory.resolved", [fetch |-> k, history |-> history])
    /\ UNCHANGED <<outerVars, isOpen, panelError, historyCalls, itemFetches,
                   panelCalls>>

\* loadHistory after its await threw: setError(...); finally
\* setLoading(false)
loadHistory_rejected(k, err) ==
    /\ panelError' = Some(MessageOr(err, <<"Failed to load history">>))
    /\ panelLoading' = FALSE
    /\ historyFetches' = historyFetches \ {k}
    /\ PanelRan("loadHistory.rejected", [fetch |-> k, err |-> err])
    /\ UNCHANGED <<outerVars, isOpen, evaluations, evaluationsFrom,
                   historyCalls, itemFetches, panelCalls>>

\* handleSelectEvaluation up to its await:
\* apiService.getEvaluationById(historyItem.evaluation_id)
handleSelectEvaluation(historyItem) ==
    /\ itemFetches' = Append(itemFetches,
                             [historyItem |-> historyItem,
                              evaluationId |-> historyItem.evaluation_id])
    /\ PanelRan("handleSelectEvaluation", historyItem)
    /\ UNCHANGED <<outerVars, isOpen, evaluations, evaluationsFrom,
                   panelLoading, panelError, historyCalls, historyFetches,
                   panelCalls>>

handleSelectEvaluation_resolved_CloseFirst(i, evaluation) ==
    /\ panelCalls' = panelCalls \o
           <<[fn |-> "onClose"],
             [fn |-> "onSelectEvaluation", evaluation |-> evaluation,
              originalRequest |-> itemFetches[i].historyItem.request_data]>>
    /\ itemFetches' = RemoveAt(itemFetches, i)
    /\ PanelRan("handleSelectEvaluation.resolved",
                [fetch |-> itemFetches[i], evaluation |-> evaluation])
    /\ UNCHANGED <<outerVars, isOpen, evaluations, evaluationsFrom,
                   panelLoading, panelError, historyCalls, historyFetches>>

\* handleSelectEvaluation after its await returned:
\* onSelectEvaluation(evaluation, historyItem.request_data); onClose()
handleSelectEvaluation_resolved(i, evaluation) ==
    /\ panelCalls' = panelCalls \o
           <<[fn |-> "onSelectEvaluation", evaluation |-> evaluation,
              originalRequest |-> itemFetches[i].historyItem.request_data],
             [fn |-> "onClose"]>>
    /\ itemFetches' = RemoveAt(itemFetches, i)
    /\ PanelRan("handleSelectEvaluation.resolved",
                [fetch |-> itemFetches[i], evaluation |-> evaluation])
    /\ UNCHANGED <<outerVars, isOpen, evaluations, evaluationsFrom,
                   panelLoading, panelError, historyCalls, historyFetches>>

\* handleSelectEvaluation after its await threw: setError(...)
handleSelectEvaluation_rejected(i, err) ==
    /\ panelError' = Some(MessageOr(err, <<"Failed to load evaluation">>))
    /\ itemFetches' = RemoveAt(itemFetches, i)
    /\ PanelRan("handleSelectEvaluation.rejected",
                [fetch |-> itemFetches[i], err |-> err])
    /\ UNCHANGED <<outerVars, isOpen, evaluations, evaluationsFrom,
                   panelLoading, historyCalls, historyFetches, panelCalls>>

\* the parent opens the panel, and closes it
ParentOpensPanel ==
    /\ ~isOpen /\ Len(historyCalls) < MaxHistoryCalls
    /\ useEffect_isOpen(TRUE)

ParentClosesPanel == isOpen /\ useEffect_isOpen(FALSE)

\* Try again is rendered while error is truthy
UserClicksTryAgain ==
    /\ isOpen /\ ErrorShown(panelError)
    /\ Len(historyCalls) < MaxHistoryCalls
    /\ clickLoadHistory("tryAgain")

\* Refresh History is disabled while loading
UserClicksRefresh ==
    /\ isOpen /\ ~panelLoading
    /\ Len(historyCalls) < MaxHistoryCalls
    /\ clickLoadHistory("refresh")

HistoryResolves ==
    \E k \in historyFetches, history \in HistoryLists :
        loadHistory_resolved(k, history)

HistoryRejects ==
    \E k \in historyFetches, err \in Rejections : loadHistory_rejected(k, err)

\* the items are rendered while !loading && !error && evaluations.length > 0
UserClicksItem ==
    /\ isOpen /\ ~panelLoading /\ ~ErrorShown(panelError)
    /\ Len(itemFetches) < MaxItemFetches
    /\ Len(panelCalls) < 2 * MaxSelections
    /\ \E i \in 1..Len(evaluations) : handleSelectEvaluation(evaluations[i])

ItemResolves ==
    \E i \in 1..Len(itemFetches) :
        \E evaluation \in FetchedEvaluations(itemFetches[i].evaluationId) :
            handleSelectEvaluation_resolved(i, evaluation)

ItemRejects ==
    \E i \in 1..Len(itemFetches), err \in Rejections :
        handleSelectEvaluation_rejected(i, err)

NextHistory ==
    \/ ParentOpensPanel
    \/ ParentClosesPanel
    \/ UserClicksTryAgain
    \/ UserClicksRefresh
    \/ HistoryResolves
    \/ HistoryRejects
    \/ UserClicksItem
    \/ ItemResolves
    \/ ItemRejects

-----------------------------------------------------------------------------
(* shared/services/api.ts: ApiService.request.                             *)

\* the longest detail array of an error body
MaxDetailEntries == 2

\* array.map(e => e.msg).join(', ')
RECURSIVE JoinMsgs(_, _)
JoinMsgs(entries, separator) ==
    IF entries = << >> THEN EmptyString
    ELSE IF Len(entries) = 1 THEN entries[1].msg
    ELSE entries[1].msg \o separator \o JoinMsgs(Tail(entries), separator)

\* new Error(x).message: '' for undefined
NewError(message) ==
    [kind |-> "Error",
     message |-> IF message.kind = "undefined" THEN EmptyString ELSE message.v]

DetailMessage_LastOnly(errorData) ==
    IF errorData.detail.kind = "array"
    THEN IF errorData.detail.items = << >> THEN Some(EmptyString)
         ELSE Some(errorData.detail.items[Len(errorData.detail.items)].msg)
    ELSE errorData.detail

\* Array.isArray(errorData.detail) ? errorData.detail.map(e => e.msg)
\* .join(', ') : errorData.detail
DetailMessage(errorData) ==
    IF errorData.detail.kind = "array"
    THEN Some(JoinMsgs(errorData.detail.items, <<", ">>))
    ELSE errorData.detail

\* await response.json().catch(() => ({ detail: `HTTP error! status:
\* ${response.status}` }))
ErrorDataOf(resp) ==
    IF resp.body.kind = "json" THEN resp.body.v
    ELSE [detail |-> Some(<<"HTTP error! status: ", ToString(resp.status)>>)]

Rejected(err) == [kind |-> "rejected", err |-> err]
Resolved(value) == [kind |-> "resolved", v |-> value]

\* catch (error) { if (error instanceof Error) throw error; throw new
\* Error('An unexpected error occurred') }
Rethrow(err) ==
    IF err.kind = "Error" THEN Rejected(err)
    ELSE Rejected(NewError(Some(<<"An unexpected error occurred">>)))

\* request(endpoint, options), given what fetch(url, config) settles with
request(fetched) ==
    IF fetched.kind = "rejected" THEN Rethrow(fetched.err)
    ELSE LET resp == fetched.v
         IN  IF ~resp.ok
             THEN Rethrow(NewError(DetailMessage(ErrorDataOf(resp))))
             ELSE IF resp.body.kind = "json" THEN Resolved(resp.body.v)
                  ELSE Rejected(resp.body.err)

\* the msg fields of the entries of a detail array
DetailMsgs == {<<"Field required">>, <<"Invalid value">>, EmptyString}

\* the detail of an error body: a string, an array of entries, or missing
Details ==
    {[kind |-> "value", v |-> <<"Simple error message">>],
     [kind |-> "value", v |-> EmptyString],
     Undefined}
    \cup UNION {{[kind |-> "array", items |-> [i \in 1..n |-> [msg |-> ms[i]]]] :
                    ms \in [1..n -> DetailMsgs]} : n \in 0..MaxDetailEntries}

\* a body that parses, and one whose json() rejects
Bodies(values) ==
    {[kind |-> "json", v |-> v] : v \in values}
    \cup {[kind |-> "unparseable",
           err |-> [kind |-> "Error", message |-> <<"Invalid JSON">>]]}

\* what fetch settles with: a rejection, a non-OK response, an OK response
FetchOutcomes ==
    {Rejected(err) : err \in Rejections \cup
                       {[kind |-> "Error", message |-> <<"Network error">>]}}
    \cup {Resolved([ok |-> FALSE, status |-> st, body |-> b]) :
              st \in {400, 404, 500},
              b \in Bodies({[detail |-> d] : d \in Details})}
    \cup {Resolved([ok |-> TRUE, status |-> 200, body |-> b]) :
              b \in Bodies({[status |-> "ok"], [evaluation_id |-> "eval-1"]})}

ApiCalls == {Pending("request", fetched) : fetched \in FetchOutcomes}

CallRequest ==
    /\ call.fn = "request" /\ ~call.done
    /\ Return(request(call.arg))
    /\ UNCHANGED <<formVars, appVars, historyVars, orchVars, runVars>>

NextApi == CallRequest

-----------------------------------------------------------------------------
(* shared/utils/evaluation.ts: getEvaluationSummary, and the copy of it    *)
(* that HistoryPanel keeps for its list items.                             *)

MaxSummaryResults == 2

\* the length above which the summary truncates the test input
TruncateAt == 50

Ellipsis == <<".", ".", ".">>

\* (score * 100).toFixed(1): the score as a percentage with one decimal, the
\* nearest tenth (a score is a multiple of 1/One, a tenth of a percent is
\* One \div 1000 of them)
formatScore(score) ==
    LET perTenth == One \div 1000
        tenths == (score + perTenth \div 2) \div perTenth
    IN  <<ToString(tenths \div 10), ".", ToString(tenths % 10)>>

\* results.reduce((max, result) => Math.max(max, result.total_score || 0), max)
RECURSIVE ReduceTopScore(_, _)
ReduceTopScore(rs, max) ==
    IF rs = << >> THEN max
    ELSE LET score == NumberOr(Head(rs).total_score, 0)
         IN  ReduceTopScore(Tail(rs), IF score > max THEN score ELSE max)

\* array?.length || 0
LengthOr0(array) == IF array.kind = "undefined" THEN 0 ELSE Len(array.v)

\* results?.reduce(..., 0) || 0
TopScoreOf(rs) == IF rs.kind = "undefined" THEN 0 ELSE ReduceTopScore(rs.v, 0)

\* testInput.length >= 50 ? ... : testInput
TruncateTestInput_Inclusive(text) ==
    IF Len(text) >= TruncateAt
    THEN SubSeq(text, 1, TruncateAt) \o Ellipsis
    ELSE text

\* testInput.length > 50 ? `${testInput.substring(0, 50)}...` : testInput
TruncateTestInput(text) ==
    IF Len(text) > TruncateAt
    THEN SubSeq(text, 1, TruncateAt) \o Ellipsis
    ELSE text

getEvaluationSummary(historyItem) ==
    LET requestData == historyItem.request_data
        responseData == historyItem.response_data
        promptCount == LengthOr0(requestData.prompts)
        input == StringOr(requestData.test_input, EmptyString)
        criteriaCount == LengthOr0(requestData.criteria)
        topScore == TopScoreOf(responseData.results)
    IN  [promptCount |-> promptCount,
         testInput |-> TruncateTestInput(input),
         criteriaCount |-> criteriaCount,
         topScore |-> formatScore(topScore)]

\* HistoryPanel's own getEvaluationSummary: the same code over evaluation
HistoryPanel_getEvaluationSummary(evaluation) ==
    LET promptCount == LengthOr0(evaluation.request_data.prompts)
        input == StringOr(evaluation.request_data.test_input, EmptyString)
        criteriaCount == LengthOr0(evaluation.request_data.criteria)
        topScore == TopScoreOf(evaluation.response_data.results)
    IN  [promptCount |-> promptCount,
         testInput |-> TruncateTestInput(input),
         criteriaCount |-> criteriaCount,
         topScore |-> formatScore(topScore)]

\* a text of n characters, no two neighbours alike
TextOfLength(n) == [i \in 1..n |-> ToString(i % 10)]

SummaryTestInputs ==
    {Undefined}
    \cup {Some(TextOfLength(n)) :
              n \in {0, 1, TruncateAt - 1, TruncateAt, TruncateAt + 1, TruncateAt + 10}}

SummaryScores == {Undefined, Some(0), Some(1700), Some(1840), Some(One)}

SummaryResults ==
    {Undefined}
    \cup {Some(rs) :
              rs \in UNION {[1..n -> {[total_score |-> s] : s \in SummaryScores}] :
                               n \in 0..MaxSummaryResults}}

SummaryArrays == {Undefined, Some(<< >>), Some(<<"a">>), Some(<<"a", "b">>)}

SummaryItems ==
    {[request_data |-> [prompts |-> ps, criteria |-> cs, test_input |-> t],
      response_data |-> [results |-> rs]] :
         ps \in {Undefined, Some(<<"a", "b">>)}, cs \in SummaryArrays,
         t \in SummaryTestInputs, rs \in SummaryResults}

SummaryCalls ==
    {Pending(fn, item) :
         fn \in {"getEvaluationSummary", "HistoryPanel.getEvaluationSummary"},
         item \in SummaryItems}

CallGetEvaluationSummary ==
    /\ call.fn = "getEvaluationSummary" /\ ~call.done
    /\ Return(getEvaluationSummary(call.arg))
    /\ UNCHANGED <<formVars, appVars, historyVars, orchVars, runVars>>

CallPanelGetEvaluationSummary ==
    /\ call.fn = "HistoryPanel.getEvaluationSummary" /\ ~call.done
    /\ Return(HistoryPanel_getEvaluationSummary(call.arg))
    /\ UNCHANGED <<formVars, appVars, historyVars, orchVars, runVars>>

NextSummary == CallGetEvaluationSummary \/ CallPanelGetEvaluationSummary

-----------------------------------------------------------------------------
(* Specifications.                                                         *)

\* the pure functions applied to every input of the bounded sets
InitUtilSpec ==
    call \in UtilCalls /\ InitForm /\ InitOrch /\ InitApp /\ InitHistoryPanel /\ zeroDenominatorPolicy = "zero_scores"

SpecUtil == InitUtilSpec /\ [][NextUtil]_vars

\* the Aggregator applied to every input of the bounded sets
InitAggSpec ==
    call \in AggCalls /\ InitForm /\ InitOrch /\ InitApp /\ InitHistoryPanel /\ zeroDenominatorPolicy = "zero_scores"

SpecAgg == InitAggSpec /\ [][NextAgg]_vars

\* the form validation of evaluation.ts applied to every input of the
\* bounded sets
InitValidSpec ==
    call \in ValidCalls /\ InitForm /\ InitOrch /\ InitApp /\ InitHistoryPanel /\ zeroDenominatorPolicy = "zero_scores"

SpecValid == InitValidSpec /\ [][NextValid]_vars

\* the form after its first render
Init ==
    call = NoCall /\ InitForm /\ InitOrch /\ InitApp /\ InitHistoryPanel /\ zeroDenominatorPolicy = "zero_scores"

SpecForm == Init /\ [][NextForm]_vars

SpecPrompts == Init /\ [][NextPrompts]_vars

SpecModels == Init /\ [][NextModels]_vars

SpecCounts == Init /\ [][NextCounts]_vars

SpecCriteria == Init /\ [][NextCriteria]_vars

SpecCriteriaCount == Init /\ [][NextCriteriaCount]_vars

\* the orchestrator evaluating one request
InitOrchSpec ==
    /\ call = NoCall /\ InitForm /\ InitOrch /\ InitApp /\ InitHistoryPanel
    /\ zeroDenominatorPolicy \in ZeroDenominatorOutcomes

SpecOrch == InitOrchSpec /\ [][NextOrch]_vars

\* two invocations with the same request and stubs
SpecRuns == InitOrchSpec /\ [][NextRuns]_vars

\* every provider call settles (each carries its own timeout, spec.md 5)
\* and the orchestrator takes its own steps; over the smaller requests
\* App after its first render
InitAppSpec ==
    call = NoCall /\ InitForm /\ InitOrch /\ InitApp /\ InitHistoryPanel /\ zeroDenominatorPolicy = "zero_scores"

SpecApp == InitAppSpec /\ [][NextApp]_vars

\* a handler that started runs to its end, and every request sent is
\* answered or fails: its continuation waits while another handler runs
\* and is not put off for ever
SpecAppLive ==
    InitAppSpec /\ [][NextApp]_vars /\ WF_vars(PanelCloses) /\ SF_vars(ApiSettles)

\* the history panel mounted open or closed
InitHistorySpec ==
    /\ call = NoCall /\ InitForm /\ InitOrch /\ InitApp
    /\ zeroDenominatorPolicy = "zero_scores"
    /\ \E open \in BOOLEAN : MountHistoryPanel(open)

SpecHistory == InitHistorySpec /\ [][NextHistory]_vars

\* ApiService.request applied to every outcome of fetch of the bounded sets
InitApiSpec ==
    call \in ApiCalls /\ InitForm /\ InitOrch /\ InitApp /\ InitHistoryPanel /\ zeroDenominatorPolicy = "zero_scores"

SpecApi == InitApiSpec /\ [][NextApi]_vars

\* the two getEvaluationSummary applied to every history item of the bounded sets
InitSummarySpec ==
    call \in SummaryCalls /\ InitForm /\ InitOrch /\ InitApp /\ InitHistoryPanel /\ zeroDenominatorPolicy = "zero_scores"

SpecSummary == InitSummarySpec /\ [][NextSummary]_vars

SpecOrchLive == InitOrchSpec /\ [][NextOrchLive]_vars /\ WF_vars(NextOrchLive)

-----------------------------------------------------------------------------
(* Claims about the pure functions (SpecUtil).                             *)

Returned(fn) == call.fn = fn /\ call.done

\* the sum of the weights, taken from the last criterion backwards
RECURSIVE TotalWeight(_)
TotalWeight(cs) ==
    IF cs = << >> THEN 0
    ELSE cs[Len(cs)].weight + TotalWeight(SubSeq(cs, 1, Len(cs) - 1))

\* the indices of the results no other result beats by the tolerance or more
BestIndices(items) ==
    {i \in 1..Len(items) :
        \A j \in 1..Len(items) :
            items[j].total_score - items[i].total_score < Tolerance}

\* out lists the prompt_ids at the indices S, in increasing index order
ListsInOrder(out, items, S) ==
    /\ Len(out) = Cardinality(S)
    /\ \A k \in 1..Len(out) :
           \E i \in S : /\ out[k] = items[i].prompt_id
                        /\ Cardinality({j \in S : j < i}) = k - 1

\* C1: getBestPromptIds(results) returns, in input order, exactly the
\* prompt_ids of the results whose total_score is less than 0.001 below the
\* maximum (all of them when the scores are equal), and the empty list when
\* results is empty, null or undefined; the table's own getBestPromptIds
\* computes the same list from the results prop.
C1_BestPromptIds ==
    Returned("getBestPromptIds") =>
        IF call.arg.kind # "array"
        THEN call.ret = << >> /\ TableGetBestPromptIds(Null) = << >>
        ELSE /\ ListsInOrder(call.ret, call.arg.items, BestIndices(call.arg.items))
             /\ TableGetBestPromptIds([kind |-> "response",
                                       results |-> call.arg.items]) = call.ret

\* three results, the first 0.001 below the largest (left out), the third
\* 0.0005 below it (a tie)
C1_Witness ==
    /\ Returned("getBestPromptIds")
    /\ call.arg.kind = "array"
    /\ Len(call.arg.items) = 3
    /\ call.arg.items[2].total_score - call.arg.items[1].total_score = Tolerance
    /\ call.arg.items[2].total_score - call.arg.items[3].total_score = 1
    /\ call.ret = <<PromptIdOf(2), PromptIdOf(3)>>

EvalOfRow(row) ==
    LET promptResult == call.arg.results.results[1]
    IN  promptResult.generation_evaluation_results[row.generationId]
            .evaluation_results[row.evaluationId]

\* C4: in every row of getPanelData, a missing score for the criterion is
\* shown as 0 and a missing reasoning as 'No reasoning available', while a
\* score or a reasoning that is present, the empty string included, is shown
\* as it is.
C4_MissingScoreAndReasoning ==
    (Returned("getPanelData") /\ call.ret.kind = "panel") =>
        \A k \in 1..Len(call.ret.evaluationRows) :
            LET row == call.ret.evaluationRows[k]
                ev == EvalOfRow(row)
            IN  /\ row.score = IF call.arg.criterionName \in DOMAIN ev.scores
                               THEN ev.scores[call.arg.criterionName] ELSE 0
                /\ row.reasoning =
                       IF call.arg.criterionName \in DOMAIN ev.reasoning
                       THEN ev.reasoning[call.arg.criterionName]
                       ELSE NoReasoning

-----------------------------------------------------------------------------
(* Claims about the form (SpecForm, SpecPrompts, SpecCounts, SpecCriteria).*)

\* a string that is empty or all white space
Blank(str) == \A i \in 1..Len(str) : str[i] = Space

WeightsOffTolerance(cs) == MathAbs(TotalWeight(cs) - One) >= Tolerance

\* the four ways a request violates validation
ViolatesValidation(ps, cs, input) ==
    \/ WeightsOffTolerance(cs)
    \/ Blank(input)
    \/ \E i \in 1..Len(ps) : Blank(ps[i])
    \/ \E i \in 1..Len(cs) : Blank(cs[i].name) \/ Blank(cs[i].description)

Evaluated == lastOp = "handleEvaluate" /\ onEvaluateCalls # << >>

C6_CountsInRange ==
    \A k \in 1..Len(onEvaluateCalls) :
        /\ onEvaluateCalls[k].generation_count \in MinCount..MaxCount
        /\ onEvaluateCalls[k].evaluation_count \in MinCount..MaxCount

\* C7: no two criteria of the form, nor of a request passed to onEvaluate,
\* have the same name (criteria only added and removed, never renamed).
C7_UniqueCriterionNames ==
    /\ \A i, j \in 1..Len(criteria) :
           i # j => criteria[i].name # criteria[j].name
    /\ \A k \in 1..Len(onEvaluateCalls) :
           \A i, j \in 1..Len(onEvaluateCalls[k].criteria) :
               i # j => onEvaluateCalls[k].criteria[i].name
                        # onEvaluateCalls[k].criteria[j].name

-----------------------------------------------------------------------------
(* Claims about the orchestrator (SpecOrch).                               *)

Responded == ~IsNullish(response)

\* the generation launched at position g of prompt p returned
Succeeded(p, g) == genSlots[p][g].status = "ok"

\* the positions, in launch order, of the generations of p that returned:
\* the i-th is the least position with i - 1 returned positions below it
LaunchedAndReturned(p) ==
    LET ok == {g \in 1..orchRequest.generation_count : Succeeded(p, g)}
    IN  [i \in 1..Cardinality(ok) |->
            CHOOSE g \in ok : Cardinality({h \in ok : h < g}) = i - 1]

\* what the judge call launched at (p, g, j) left behind
OutcomeOfJudge(p, g, j) ==
    IF genSlots[p][g].evaluations[j].status = "ok"
    THEN EvaluationResultOf(p, g, j)
    ELSE FailedEvaluationResultOf(p, g, j)

\* a later launched generation of p settled before an earlier one, and
\* both returned
OutOfOrderArrival(p) ==
    \E a, b \in 1..Len(genArrivals[p]) :
        /\ a < b
        /\ genArrivals[p][a] > genArrivals[p][b]
        /\ Succeeded(p, genArrivals[p][a])
        /\ Succeeded(p, genArrivals[p][b])

\* C8: the PromptResult sequence of a response matches the input prompt
\* order, whichever prompt was completed first, and row i of the table
\* (results.results[i]) shows the result of prompt i.
C8_ResponseInPromptOrder ==
    Responded =>
        /\ Len(response.results) = Len(orchRequest.prompts)
        /\ \A i \in 1..Len(orchRequest.prompts) :
               /\ response.results[i].prompt = orchRequest.prompts[i]
               /\ response.results[i] = promptResults[i]
               /\ RowResult(response, i) =
                      [kind |-> "value", v |-> promptResults[i]]

\* a response whose prompts were not completed in input order
C8_Witness ==
    /\ Responded
    /\ Len(finished) >= 2
    /\ finished[1] # 1

\* C9: within a prompt, the GenerationEvaluationResult sequence is in
\* launch order of the generations, not in the order they settled, and each
\* judge result sits with the generation (and at the position) it was
\* launched for; the panel lists its rows in that order.
C9_GenerationsInLaunchOrder ==
    \A p \in 1..PromptCount :
        Completed(p) =>
            LET launched == LaunchedAndReturned(p)
                list == promptResults[p].generation_evaluation_results
                ne == orchRequest.evaluation_count
                panel == getPanelData(response, PromptIdOf(p), "accuracy")
            IN  /\ Len(list) = Len(launched)
                /\ \A i \in 1..Len(list) :
                       /\ list[i].generation_result =
                              GenerationResultOf(p, launched[i])
                       /\ Len(list[i].evaluation_results) = ne
                       /\ \A j \in 1..ne :
                              list[i].evaluation_results[j] =
                                  OutcomeOfJudge(p, launched[i], j)
                /\ Responded =>
                       /\ panel.kind = "panel"
                       /\ Len(panel.evaluationRows) = Len(list) * ne
                       /\ \A i \in 1..Len(list), j \in 1..ne :
                              LET row == panel.evaluationRows[(i - 1) * ne + j]
                              IN  /\ row.generationId = i
                                  /\ row.evaluationId = j
                                  /\ row.generationOutput =
                                         GenerationResultOf(p, launched[i]).output
                                  /\ row.score =
                                         OutcomeOfJudge(p, launched[i], j)
                                             .scores.accuracy

\* a response with a prompt whose generations returned out of launch order
C9_Witness ==
    /\ Responded
    /\ \E p \in 1..PromptCount :
           /\ OutOfOrderArrival(p)
           /\ Len(promptResults[p].generation_evaluation_results) >= 2

\* the slot of a launched call
SlotStatus(c) ==
    IF c.kind = "generate"
    THEN genSlots[c.prompt][c.generation].status
    ELSE genSlots[c.prompt][c.generation].evaluations[c.evaluation].status

\* every call launched for prompt p has settled: every generation, and
\* every judge call of every generation that returned
AllSettled(p) ==
    /\ \A c \in inFlight : c.prompt # p
    /\ \A g \in 1..orchRequest.generation_count :
           /\ genSlots[p][g].status # "empty"
           /\ Succeeded(p, g) =>
                  \A j \in 1..orchRequest.evaluation_count :
                      genSlots[p][g].evaluations[j].status # "empty"

\* a step in which call c fails leaves every other call in flight, with
\* its slot still to be filled
FailureCancelsNothing ==
    \A c \in inFlight :
        (SlotStatus(c) = "empty" /\ SlotStatus(c)' = "failed") =>
            /\ inFlight' = inFlight \ {c}
            /\ \A d \in inFlight \ {c} : SlotStatus(d)' = "empty"

\* C10: a failed generation or judge call does not cancel its siblings, and
\* a prompt is aggregated only after every call launched for it has settled.
C10_NoCancelAndJoin ==
    /\ [](\A p \in 1..PromptCount : Completed(p) => AllSettled(p))
    /\ [][FailureCancelsNothing]_vars

\* an aggregated prompt with a failed generation and a later launched
\* sibling that returned and was judged
C10_Witness ==
    \E p \in 1..PromptCount :
        /\ Completed(p)
        /\ \E g, h \in 1..orchRequest.generation_count :
               /\ genSlots[p][g].status = "failed"
               /\ Succeeded(p, h)
               /\ genSlots[p][h].evaluations[1].status = "ok"
               /\ h > g

-----------------------------------------------------------------------------
(* Claims about failures and the Aggregator within the orchestrator        *)
(* (SpecOrch, SpecOrchLive).                                               *)

\* final_scores of a PromptResult has a score for every criterion
ScoresDefined(promptResult) ==
    \A c \in CriterionNames(orchRequest.criteria) :
        c \in DOMAIN promptResult.final_scores

\* a "completed" response with one PromptResult per input prompt
CompletedResponse ==
    /\ Responded
    /\ response.status = "completed"
    /\ Len(response.results) = Len(orchRequest.prompts)
    /\ \A i \in 1..Len(orchRequest.prompts) :
           response.results[i].prompt_id = PromptIdOf(i)

StdDevCell(promptResult, criterionName) ==
    IF promptResult.score_std_devs.kind = "undefined" THEN "nothing"
    ELSE LET stdDev == Lookup(promptResult.score_std_devs.v, criterionName)
         IN  IF stdDev.kind = "undefined" THEN "nothing"
             ELSE IF stdDev.v.sqrt_of.num = 0 THEN "0"
             ELSE "plus_minus"

HasStdDevs(promptResult) == promptResult.score_std_devs.kind # "undefined"

\* C12 as stated: score_std_devs is present if and only if
\* generation_count > 1.
C12_Original ==
    \A p \in 1..PromptCount :
        Completed(p) =>
            (HasStdDevs(promptResults[p])
                 <=> promptResults[p].generation_count > 1)

\* C12, amended: score_std_devs is present if and only if more than one
\* generation of the prompt returned (so it is absent for
\* generation_count = 1, and also when failures leave fewer than two
\* generations); where it is absent the table shows no deviation.
C12_Amended ==
    \A p \in 1..PromptCount :
        Completed(p) =>
            LET pr == promptResults[p]
            IN  /\ HasStdDevs(pr)
                       <=> Len(pr.generation_evaluation_results) > 1
                /\ pr.generation_count = 1 => ~HasStdDevs(pr)
                /\ HasStdDevs(pr) =>
                       DOMAIN pr.score_std_devs.v
                           = CriterionNames(orchRequest.criteria)
                /\ ~HasStdDevs(pr) => StdDevCell(pr, "accuracy") = "nothing"

\* two generations requested, one failed: a single generation is left and
\* the deviations are absent
C12_Witness ==
    \E p \in 1..PromptCount :
        /\ Completed(p)
        /\ promptResults[p].generation_count = 2
        /\ Len(promptResults[p].generation_evaluation_results) = 1
        /\ ~HasStdDevs(promptResults[p])

-----------------------------------------------------------------------------
(* Claims about the Aggregator (SpecAgg).                                  *)

\* every aggregated score of the input lies in [0, 1]
ScoresInUnitRange(generationResults) ==
    \A g \in 1..Len(generationResults) :
        \A c \in DOMAIN generationResults[g].aggregated_scores :
            /\ RatLeq(Rat(0, 1), generationResults[g].aggregated_scores[c])
            /\ RatLeq(generationResults[g].aggregated_scores[c], Rat(One, 1))

NonNegativeWeights(cs) == \A i \in 1..Len(cs) : cs[i].weight >= 0

\* C13 as stated: weights summing to 1.0 within the tolerance and scores
\* in [0,1] give a total_score in [0,1].
C13_Original ==
    (/\ Returned("aggregatePromptResults")
     /\ validateCriteriaWeights(call.arg.criteria)
     /\ ScoresInUnitRange(call.arg.generationResults))
        => /\ RatLeq(Rat(0, 1), call.ret.total_score)
           /\ RatLeq(call.ret.total_score, Rat(One, 1))

\* C13, amended: for non-negative weights summing to 1.0 within the
\* tolerance and scores in [0,1], total_score lies between 0 and the sum
\* of the weights (below 1.001); it is at most 1 when the weights sum to
\* at most 1.0.
C13_Amended ==
    (/\ Returned("aggregatePromptResults")
     /\ validateCriteriaWeights(call.arg.criteria)
     /\ NonNegativeWeights(call.arg.criteria)
     /\ ScoresInUnitRange(call.arg.generationResults))
        => /\ RatLeq(Rat(0, 1), call.ret.total_score)
           /\ RatLeq(call.ret.total_score,
                     Rat(TotalWeight(call.arg.criteria), 1))
           /\ TotalWeight(call.arg.criteria) < One + Tolerance
           /\ TotalWeight(call.arg.criteria) <= One
                  => RatLeq(call.ret.total_score, Rat(One, 1))

\* weights 0.5 and 0.5005 pass the validation; with every score at 1.0 the
\* total is 1.0005
C13_Witness ==
    /\ Returned("aggregatePromptResults")
    /\ validateCriteriaWeights(call.arg.criteria)
    /\ NonNegativeWeights(call.arg.criteria)
    /\ Len(call.arg.generationResults) = 2
    /\ TotalWeight(call.arg.criteria) = One + 1
    /\ call.ret.total_score = Rat(One + 1, 1)

-----------------------------------------------------------------------------
(* Claims about repeated invocations (SpecRuns).                           *)

\* C14: with deterministic stubs, two invocations of evaluate on the same
\* request yield the same final_scores and total_score for every prompt,
\* whatever order the calls settled in.
C14_SameScores ==
    Len(runs) = Invocations => runs[1].scores = runs[2].scores

\* two invocations whose generations settled in different orders, one
\* generation and one judge call failing in both
C14_Witness ==
    /\ Len(runs) = Invocations
    /\ runs[1].genArrivals # runs[2].genArrivals
    /\ \E c, d \in stubFails :
           c.kind = "generate" /\ d.kind = "judge"
    /\ \E i \in 1..Len(runs[1].scores) :
           /\ DOMAIN runs[1].scores[i].final_scores # {}
           /\ runs[1].scores[i].total_score # Rat(0, 1)

-----------------------------------------------------------------------------
(* Claims about the form validation of evaluation.ts (SpecValid).          *)

\* C15: isFormValid(prompts, criteria, testInput) is true exactly when the
\* test input has a character that is not white space, so has every
\* prompt, so have the name and the description of every criterion, and
\* validateCriteriaWeights(criteria) holds.
C15_IsFormValid ==
    Returned("isFormValid") =>
        (call.ret <=>
            /\ ~Blank(call.arg.testInput)
            /\ \A i \in 1..Len(call.arg.prompts) : ~Blank(call.arg.prompts[i])
            /\ \A i \in 1..Len(call.arg.criteria) :
                   /\ ~Blank(call.arg.criteria[i].name)
                   /\ ~Blank(call.arg.criteria[i].description)
            /\ validateCriteriaWeights(call.arg.criteria))

\* isFormValid rejected two prompts of which one is blank, everything else
\* being in order
C15_Witness ==
    /\ Returned("isFormValid")
    /\ ~call.ret
    /\ Len(call.arg.prompts) = 2
    /\ Blank(call.arg.prompts[1]) /\ ~Blank(call.arg.prompts[2])
    /\ ~Blank(call.arg.testInput)
    /\ Len(call.arg.criteria) = 2
    /\ \A i \in 1..2 : /\ ~Blank(call.arg.criteria[i].name)
                        /\ ~Blank(call.arg.criteria[i].description)
    /\ validateCriteriaWeights(call.arg.criteria)

-----------------------------------------------------------------------------
(* Claims about the lengths of the two lists of the form.                  *)

\* what addPrompt and removePrompt do to the list: nothing at 10 and at 1,
\* one entry more and one entry less otherwise
PromptCountStep ==
    /\ (lastOp' = "addPrompt" /\ Len(prompts) = 10) => prompts' = prompts
    /\ (lastOp' = "removePrompt" /\ Len(prompts) = 1) => prompts' = prompts
    /\ (lastOp' = "addPrompt" /\ Len(prompts) < 10)
           => prompts' = Append(prompts, EmptyString)
    /\ (lastOp' = "removePrompt" /\ Len(prompts) > 1)
           => Len(prompts') = Len(prompts) - 1

\* C16: the prompt list always has between 1 and 10 entries; addPrompt
\* changes nothing when there are 10 and removePrompt changes nothing
\* when there is 1.
C16_PromptCount ==
    [](Len(prompts) \in 1..10) /\ [][PromptCountStep]_vars

\* ten prompts after addPrompt
C16_Witness == Len(prompts) = 10 /\ lastOp = "addPrompt"

\* what addCriterion and removeCriterion do to the list: nothing at 10 and
\* at 1, one entry more and one entry less otherwise
CriteriaCountStep ==
    /\ (lastOp' = "addCriterion" /\ Len(criteria) = 10)
           => criteria' = criteria
    /\ (lastOp' = "removeCriterion" /\ Len(criteria) = 1)
           => criteria' = criteria
    /\ (lastOp' = "addCriterion" /\ Len(criteria) < 10)
           => /\ Len(criteria') = Len(criteria) + 1
              /\ SubSeq(criteria', 1, Len(criteria)) = criteria
    /\ (lastOp' = "removeCriterion" /\ Len(criteria) > 1)
           => Len(criteria') = Len(criteria) - 1

\* C17: starting from the three default criteria, the criteria list
\* always has between 1 and 10 entries; addCriterion changes nothing when
\* there are 10 and removeCriterion changes nothing when there is 1.
C17_CriteriaCount ==
    [](Len(criteria) \in 1..10) /\ [][CriteriaCountStep]_vars

\* the list was emptied down to one criterion and filled up to ten
C17_Witness ==
    /\ Len(criteria) = 10
    /\ lastOp = "addCriterion"
    /\ criteria[1].name = CriterionName(2)

-----------------------------------------------------------------------------
(* Claims about App (SpecApp, SpecAppLive).                                *)

\* what the three parts of handleEvaluate do to loading, error and results
EvaluateStep ==
    /\ appOp'.op = "handleEvaluate" => (loading' /\ error' = Null)
    /\ appOp'.op = "handleEvaluate.resolved"
           => (~loading' /\ appResults' = appOp'.arg)
    /\ appOp'.op = "handleEvaluate.rejected" => ~loading'

\* C18: handleEvaluate sets loading and clears error when the evaluation
\* starts; when the request settles loading is false, results being the
\* response if it succeeded; and loading, once true, becomes false again
\* as the request settles.
C18_LoadingEnds ==
    [][EvaluateStep]_vars /\ (loading ~> ~loading)

\* a request failed after an earlier one had succeeded: loading is false
\* and the earlier results are there
C18_Witness ==
    /\ appOp.op = "handleEvaluate.rejected"
    /\ ~loading
    /\ ~IsNullish(appResults)
    /\ evaluateRequests = << >>

\* C19: when the request fails, error becomes the message of the rejection
\* if it is an Error and 'An unexpected error occurred' otherwise, and
\* results stay as they were.
C19_ErrorOfRejection ==
    [][appOp'.op = "handleEvaluate.rejected" =>
           /\ error' = Some(IF appOp'.arg.kind = "Error"
                            THEN appOp'.arg.message
                            ELSE <<"An unexpected error occurred">>)
           /\ appResults' = appResults]_vars

\* a rejection with a message, results of an earlier evaluation displayed
C19_Witness ==
    /\ appOp.op = "handleEvaluate.rejected"
    /\ appOp.arg.kind = "Error"
    /\ error = Some(<<"Evaluation failed">>)
    /\ ~IsNullish(appResults) /\ appResults.evaluation_id = "eval-2"

\* what the two history handlers of App do
HistoryStep ==
    /\ appOp'.op = "handleSelectHistoricalEvaluation"
           => /\ appResults' = appOp'.arg.evaluation
              /\ initialFormData' = appOp'.arg.request_data
              /\ error' = Null
              /\ UNCHANGED <<loading, isHistoryOpen>>
    /\ appOp'.op = "handleClearHistory"
           => /\ appResults' = Null
              /\ initialFormData' = Null
              /\ error' = Null
              /\ UNCHANGED <<loading, isHistoryOpen>>

-----------------------------------------------------------------------------
(* Claims about the history panel (SpecHistory).                           *)

\* the steps of the panel that are clicks on Try again or Refresh History
ClickedLoad == panelOp'.op \in {"tryAgain", "refresh"}

\* what a step does to the getEvaluationHistory calls: one more, with
\* limit 20, when isOpen becomes true, and none that the user did not ask
\* for otherwise
HistoryFetchStep ==
    /\ (~isOpen /\ isOpen') => historyCalls' = Append(historyCalls, 20)
    /\ ~isOpen' => historyCalls' = historyCalls
    /\ (isOpen' = isOpen /\ ~ClickedLoad) => historyCalls' = historyCalls

\* C21: HistoryPanel calls getEvaluationHistory(20) once each time isOpen
\* becomes true, the first render included, and makes no call of its own
\* while the panel is closed.
C21_LoadsOnOpen ==
    /\ [](panelOp.op = "mount"
            => historyCalls = IF isOpen THEN <<20>> ELSE << >>)
    /\ [][HistoryFetchStep]_vars

\* the panel was opened for the second time: two calls
C21_Witness ==
    /\ panelOp.op = "render"
    /\ isOpen
    /\ historyCalls = <<20, 20>>

\* what the three parts of handleSelectEvaluation do
SelectionStep ==
    /\ panelOp'.op = "handleSelectEvaluation"
           => /\ itemFetches' =
                     Append(itemFetches,
                            [historyItem |-> panelOp'.arg,
                             evaluationId |-> panelOp'.arg.evaluation_id])
              /\ panelCalls' = panelCalls
    /\ panelOp'.op = "handleSelectEvaluation.resolved"
           => /\ panelOp'.arg.evaluation.evaluation_id
                     = panelOp'.arg.fetch.historyItem.evaluation_id
              /\ panelCalls' = panelCalls \o
                     <<[fn |-> "onSelectEvaluation",
                        evaluation |-> panelOp'.arg.evaluation,
                        originalRequest |->
                            panelOp'.arg.fetch.historyItem.request_data],
                       [fn |-> "onClose"]>>
              /\ panelError' = panelError
    /\ panelOp'.op = "handleSelectEvaluation.rejected"
           => /\ panelError' =
                     Some(IF panelOp'.arg.err.kind = "Error"
                          THEN panelOp'.arg.err.message
                          ELSE <<"Failed to load evaluation">>)
              /\ panelCalls' = panelCalls

\* C22: a click on a history item fetches the evaluation of its
\* evaluation_id; when the fetch succeeds onSelectEvaluation is called
\* with the fetched evaluation and the item's request_data, and then
\* onClose; when it fails error becomes the failure's message and neither
\* callback is called.
C22_Selection == [][SelectionStep]_vars

\* the second item of the list was fetched and handed over
C22_Witness ==
    /\ panelOp.op = "handleSelectEvaluation.resolved"
    /\ Len(panelCalls) = 2
    /\ panelCalls[1].fn = "onSelectEvaluation"
    /\ panelCalls[1].evaluation.evaluation_id = "eval-1"
    /\ panelCalls[1].originalRequest = HistoryEntry("eval-1").request_data
    /\ panelCalls[2].fn = "onClose"
    /\ Len(evaluations) = 2

\* {!loading && !error && evaluations.length > 0 && ...}
ListShown ==
    ~panelLoading /\ ~ErrorShown(panelError) /\ evaluations # << >>

\* what a failed fetch, a retry and a successful fetch do to the error
\* state
FailureStep ==
    /\ panelOp'.op = "loadHistory.rejected"
           => /\ ~panelLoading'
              /\ panelError' = Some(MessageOr(panelOp'.arg.err,
                                              <<"Failed to load history">>))
              /\ ErrorShown(panelError')
              /\ ~ListShown'
    /\ panelOp'.op = "tryAgain" => panelError' = Null
    /\ panelOp'.op = "loadHistory.resolved"
           => /\ panelError' = panelError
              /\ evaluations' = panelOp'.arg.history

\* C23 as stated: after a failed history fetch loading is false, error is
\* the failure's message, the list is hidden and Try again is offered; a
\* retry clears error when it starts and a successful fetch leaves error
\* as it is and displays the fetched evaluations.
C23_FailureShown == [][FailureStep]_vars

\* an older fetch that settles after a newer one
LateFetch == panelOp'.arg.fetch < evaluationsFrom

\* C28 as stated: loading is true while a getEvaluationHistory call is in
\* flight, overlapping calls included, and the evaluations displayed are
\* not replaced by those of a call started earlier.
C28_LoadingWhileInFlight ==
    /\ [](historyFetches # {} => panelLoading)
    /\ [][(panelOp'.op = "loadHistory.resolved" /\ LateFetch)
              => evaluations' = evaluations]_vars

-----------------------------------------------------------------------------
(* Claims about ApiService.request (SpecApi).                              *)

\* the message the claim gives for a non-OK response; nothing is said of a
\* body that parses and has no detail
StatedMessage(resp, message) ==
    IF resp.body.kind # "json"
    THEN message = <<"HTTP error! status: ", ToString(resp.status)>>
    ELSE LET detail == resp.body.v.detail
         IN  /\ detail.kind = "value" => message = detail.v
             /\ detail.kind = "array" =>
                    message = JoinMsgs(detail.items, <<", ">>)

\* C24: request rejects on every non-OK response with an Error whose
\* message is the detail string, the msg fields joined by ', ' for a
\* detail array, or 'HTTP error! status: <status>' for a body that does
\* not parse; a fetch rejection that is an Error is rethrown as it is;
\* and only an OK response resolves, with the parsed body.
C24_Request ==
    Returned("request") =>
        LET fetched == call.arg
            out == call.ret
        IN  /\ (fetched.kind = "resolved" /\ ~fetched.v.ok)
                   => /\ out.kind = "rejected"
                      /\ out.err.kind = "Error"
                      /\ StatedMessage(fetched.v, out.err.message)
            /\ (fetched.kind = "rejected" /\ fetched.err.kind = "Error")
                   => out = fetched
            /\ out.kind = "resolved"
                   => /\ fetched.kind = "resolved"
                      /\ fetched.v.ok
                      /\ fetched.v.body.kind = "json"
                      /\ out.v = fetched.v.body.v

\* a 400 with two detail entries
C24_Witness ==
    /\ Returned("request")
    /\ call.arg.kind = "resolved"
    /\ call.arg.v.status = 400
    /\ call.ret.kind = "rejected"
    /\ call.ret.err.message = <<"Field required", ", ", "Invalid value">>

-----------------------------------------------------------------------------
(* Claims about getEvaluationSummary (SpecSummary).                        *)

SummaryReturned ==
    call.done /\ call.fn \in {"getEvaluationSummary", "HistoryPanel.getEvaluationSummary"}

\* the greatest total_score among the results that have one, 0 when no result
\* has one or there are no results
StatedTopScore(response_data) ==
    LET rs == response_data.results
        scores == IF rs.kind = "undefined" THEN {}
                  ELSE {rs.v[i].total_score.v :
                            i \in {j \in 1..Len(rs.v) : rs.v[j].total_score.kind = "value"}}
    IN  IF scores = {} THEN 0
        ELSE CHOOSE s \in scores : \A other \in scores : other <= s

\* C25: getEvaluationSummary returns promptCount and criteriaCount as the
\* lengths of the arrays (0 when missing), topScore as the formatted greatest
\* total_score of the results (of 0 when results or scores are missing), and
\* testInput cut to its first 50 characters followed by '...' exactly when it
\* is longer than 50 characters, unchanged otherwise.
C25_Summary ==
    SummaryReturned =>
        LET req == call.arg.request_data
            given == IF req.test_input.kind = "undefined" THEN EmptyString
                     ELSE req.test_input.v
        IN  /\ call.ret.promptCount =
                   (IF req.prompts.kind = "undefined" THEN 0 ELSE Len(req.prompts.v))
            /\ call.ret.criteriaCount =
                   (IF req.criteria.kind = "undefined" THEN 0 ELSE Len(req.criteria.v))
            /\ call.ret.topScore = formatScore(StatedTopScore(call.arg.response_data))
            /\ IF Len(given) > 50
               THEN call.ret.testInput = SubSeq(given, 1, 50) \o <<".", ".", ".">>
               ELSE call.ret.testInput = given

\* an input of exactly 50 characters is returned whole, with two results
\* the second of which has the lower score
C25_Witness ==
    /\ SummaryReturned
    /\ call.arg.request_data.test_input = Some(TextOfLength(50))
    /\ call.ret.testInput = TextOfLength(50)
    /\ call.arg.response_data.results =
           Some(<<[total_score |-> Some(1840)], [total_score |-> Some(1700)]>>)
    /\ call.ret.topScore = <<"92", ".", "0">>
    /\ call.ret.promptCount = 2


-----------------------------------------------------------------------------
(* Claims about the model overrides of a request (SpecModels).             *)

\* handleEvaluate has just passed a request to onEvaluate
Submitted == lastOp = "handleEvaluate" /\ onEvaluateCalls # << >>

SubmittedRequest == onEvaluateCalls[1]

\* C26: a submitted request carries generation_provider and generation_model
\* exactly when the advanced model settings are enabled and the generation
\* provider and model are both non-empty, and then the ones of the form;
\* likewise the evaluation pair; otherwise the fields are omitted, and a
\* provider is never sent without its model.
C26_ModelOverrides ==
    Submitted =>
        LET r == SubmittedRequest
            generation == /\ useAdvancedModelSettings
                          /\ generationProvider # EmptyString
                          /\ generationModel # EmptyString
            evaluation == /\ useAdvancedModelSettings
                          /\ evaluationProvider # EmptyString
                          /\ evaluationModel # EmptyString
        IN  /\ r.generation_provider =
                   (IF generation THEN Some(generationProvider) ELSE Undefined)
            /\ r.generation_model =
                   (IF generation THEN Some(generationModel) ELSE Undefined)
            /\ r.evaluation_provider =
                   (IF evaluation THEN Some(evaluationProvider) ELSE Undefined)
            /\ r.evaluation_model =
                   (IF evaluation THEN Some(evaluationModel) ELSE Undefined)
            /\ r.generation_provider.kind = r.generation_model.kind
            /\ r.evaluation_provider.kind = r.evaluation_model.kind

\* submitted with a generation provider whose model is not chosen, and a
\* whole evaluation pair: the first is omitted, the second sent
C26_Witness ==
    /\ Submitted
    /\ useAdvancedModelSettings
    /\ generationProvider # EmptyString /\ generationModel = EmptyString
    /\ SubmittedRequest.generation_provider = Undefined
    /\ SubmittedRequest.evaluation_provider = Some(<<"openai">>)
    /\ SubmittedRequest.evaluation_model = Some(<<"gpt-4o">>)

\* the four model fields of a request
ModelOverrides(r) ==
    <<r.generation_provider, r.generation_model,
      r.evaluation_provider, r.evaluation_model>>

\* C27: a request submitted right after a historical evaluation was loaded
\* into the form, with no edit in between, carries the model overrides of the
\* historical request, and none when it had none.
C27_RestoresModels ==
    [][(/\ lastOp = "loadInitialData" /\ ~IsNullish(initialData)
        /\ lastOp' = "handleEvaluate" /\ onEvaluateCalls' # << >>)
       => ModelOverrides(onEvaluateCalls'[1]) = ModelOverrides(initialData)]_vars


-----------------------------------------------------------------------------
(* Claims about App's requests and the historical results (SpecApp).       *)

\* C30: at most one evaluate request is in flight at any time, and loading
\* is true for as long as it is: handleEvaluate is entered only when no
\* request is awaited.
C30_OneRequest ==
    /\ [](Len(evaluateRequests) <= 1 /\ (evaluateRequests # << >> => loading))
    /\ [][appOp'.op = "handleEvaluate" /\ appOp' # appOp
             => ~loading /\ evaluateRequests = << >>]_vars

\* a request is awaited, and handlers other than handleEvaluate have run
\* since it was sent
C30_Witness ==
    /\ Len(evaluateRequests) = 1 /\ loading
    /\ appOp.op = "handleClearHistory"

\* C29: while the evaluation on display is one selected from the history
\* after the awaited request was sent, the response of that request leaves
\* the results as they are.
C29_LateResponse ==
    [][(pendingSinceBefore /\ appOp'.op = "handleEvaluate.resolved")
           => appResults' = appResults]_vars

====
